---- MODULE Spec2Model ----
(***************************************************************************)
(* Model of the issue workflow of chat-retro: the state store              *)
(* (issue_workflow/state_manager.py), the draft intake and the pipeline    *)
(* orchestrator (issue_workflow/workflow.py).                              *)
(*                                                                         *)
(* The specifications share the variables:                                 *)
(*   SpecStore  the store and the draft intake, one step per file          *)
(*              operation (open, write, rename, unlink), with crashes;     *)
(*   Spec       the pipeline: one step per stage of process() and per      *)
(*              command, a save being the rename that publishes it;        *)
(*   SpecLoad   load() on every kind of content of the state file;         *)
(*   SpecRank   the ranking fields of one issue and of its cluster;        *)
(*   SpecCommands  the commands on one issue or cluster, the changelog     *)
(*              and the public files;                                      *)
(*   SpecContent   the texts of one issue: import, triage, publication,    *)
(*              migration on load;                                         *)
(*   SpecChangelog  CHANGELOG.md, line by line, over several days;         *)
(*   SpecRunner  ClaudeCodeRunner.run on every outcome of the subprocess;  *)
(*   SpecRecover  process() runs whose agents answer, with crashes, under  *)
(*              strong fairness of the stages.                             *)
(***************************************************************************)
EXTENDS Integers, FiniteSets, Sequences, TLC

\* ------------------------------------------------------------------ bounds

\* Issue ids 1..NumIssues: every draft gets an id of its own (uuid4 prefix).
NumIssues == 2
\* Cluster names "cluster-0" .. "cluster-<MaxNamed-1>": the names the
\* clustering agent gives and the fallback f"cluster-{len(state.clusters)}".
MaxNamed == 1
\* Clusters made by fast-track, each with a fresh uuid name.
MaxFastTrack == 1
\* Cluster definitions in one output of the clustering agent.
MaxDefs == 1

Ids == 1..NumIssues
NamedIds == 0..(MaxNamed - 1)
UuidIds == {0 - k : k \in 1..MaxFastTrack}
ClusterIds == NamedIds \cup UuidIds

\* ------------------------------------------------------------------- state

VARIABLES
    stateFile,      \* the canonical file issue-state.json
    tmpFile,        \* its sibling issue-state.json.tmp
    draftFiles,     \* the files draft_<date>_<time>_<id>.json, by id
    pc,             \* position of the (single) workflow process
    retpc,          \* where save() returns to
    mem,            \* the IssueState a handler holds and saves
    snap,           \* issues of the state import_all_drafts loaded
    todo,           \* draft files import_all_drafts has still to visit
    cur,            \* the draft import_draft is working on
    imported,       \* the list import_all_drafts returns
    critical_issues,     \* process(): the issues it fast-tracks
    ftQueue,             \* process(): those not yet fast-tracked
    fast_track_failures, \* process(): the (issue id, message) pairs it records
    ftCluster,           \* _fast_track_resolve: the cluster it made
    resQueue,            \* process(): approved_clusters still to resolve
    result,              \* what process() returned last ("none": running or not the last)
    scenario,            \* history: this run of process() is the end-to-end scenario so far
    ev,             \* history: the operation the last step performed
    reported,       \* history: ids whose draft file was completely written
    importCount,    \* history: commits of import_draft per id
    corruptFile,    \* the sibling issue-state.json.corrupt
    loaded,         \* how the last load() ended
    changelog,      \* issues/CHANGELOG.md: the ids of its entries
    publicFiles,    \* issues/issue_<id>.json: what publish_issue wrote, per id
    doc,            \* one issue with its texts (title, description, context)
    gateShown,      \* what the prioritization gate printed last
    schema_version, \* schema_version of the state the last load() returned
    draftTitle,     \* history: the title doc had when it was imported as a draft
    changelogText,  \* issues/CHANGELOG.md: its lines, or <<>> when it is not there
    today,          \* the calendar day datetime.now() gives
    lastRun,        \* ClaudeCodeRunner.run: the subprocess outcome and what run did
    passedTriage,   \* history: a triage merge took doc
    issueRank,      \* SpecRank: the persisted ranking fields of an issue
    clusterRank     \* SpecRank: those of the cluster it is in

diskVars == <<stateFile, tmpFile, draftFiles>>
storeLocals == <<retpc, mem, snap, todo, cur, imported>>
procLocals == <<critical_issues, ftQueue, fast_track_failures, ftCluster, resQueue, result,
               scenario>>
histVars == <<reported, importCount>>
lateVars == <<changelogText, today, lastRun, passedTriage>>
moreVars == <<publicFiles, doc, gateShown, schema_version, draftTitle, lateVars>>
\* What neither the intake nor the pipeline writes.
sideVars == <<corruptFile, loaded, changelog, issueRank, clusterRank, moreVars>>
vars == <<stateFile, tmpFile, draftFiles, pc, retpc, mem, snap, todo, cur,
          imported, critical_issues, ftQueue, fast_track_failures, ftCluster,
          resQueue, result, scenario, ev, reported, importCount, corruptFile, loaded,
          changelog, issueRank, clusterRank, publicFiles, doc, gateShown,
          schema_version, draftTitle, changelogText, today, lastRun, passedTriage>>

\* ------------------------------------------------------------- data model

EmptyMap == [x \in {} |-> TRUE]

\* IssueState(): no issues, no clusters.
EmptyState == [issues |-> EmptyMap, clusters |-> EmptyMap]

\* Issue(status=draft): severity is None until an agent assigns it.
DraftIssue == [status |-> "draft", severity |-> "none"]

\* File contents: no file, a file cut short (not parsable), a whole state.
NoFile == [kind |-> "absent", data |-> EmptyState]
PartialFile == [kind |-> "partial", data |-> EmptyState]
FullFile(st) == [kind |-> "full", data |-> st]

\* load(): a fresh state when there is no file (or none that parses).
Load(f) == IF f.kind = "full" THEN f.data ELSE EmptyState

StatusOf(st, i) == IF i \in DOMAIN st.issues THEN st.issues[i].status ELSE "absent"

\* state.issues[i] = issue
PutIssue(st, i, issue) ==
    [st EXCEPT !.issues = [j \in (DOMAIN st.issues) \cup {i} |->
                              IF j = i THEN issue ELSE st.issues[j]]]

\* state.issues[i].status = s
SetStatus(st, i, s) == PutIssue(st, i, [st.issues[i] EXCEPT !.status = s])

\* The ranking fields before the issue is reported and its cluster made.
\* Scores are counted in halves (recency_multiplier is 1.5 or 1.0); a score
\* is <<v>>, or <<>> for None.
NoIssueRank == [status |-> "absent", severity |-> "none", frequency |-> 1,
                fix_complexity |-> "none", recent |-> TRUE, priority_score |-> <<>>]
NoClusterRank == [status |-> "absent", aggregate_priority |-> 0]

\* issue_<id>.json is not there.
NoPublicFile == [kind |-> "none"]

\* An Issue with its texts. "none" is None or a key that is absent; the
\* context is the dict of the draft, with the keys the code writes.
NoContext == [raw_title |-> "none", raw_description |-> "none", session |-> "none"]
NoDoc == [id |-> 0, status |-> "absent", title |-> "none", description |-> "none",
          sanitized_title |-> "none", sanitized_description |-> "none",
          category |-> "bug", tags |-> <<>>, affected_files |-> <<>>,
          severity |-> "none", frequency |-> 1, created |-> 0,
          context |-> NoContext]

\* ClaudeCodeRunner.run was not called yet.
NoRun == [proc |-> [kind |-> "none"], result |-> [kind |-> "none"]]

\* The prioritization gate printed nothing yet.
NothingShown == [shown |-> FALSE, priority_score |-> <<>>, aggregate_priority |-> <<>>]

\* What the last step of the store or the intake did: the operation, the
\* draft it worked on, how it ended (for a crash: where).
NoEvent == [op |-> "init", arg |-> 0, outcome |-> "none"]
Event(op, arg, outcome) == [op |-> op, arg |-> arg, outcome |-> outcome]

Init ==
    /\ stateFile = NoFile
    /\ tmpFile = NoFile
    /\ draftFiles = [i \in Ids |-> "none"]
    /\ pc = "idle"
    /\ retpc = "idle"
    /\ mem = EmptyState
    /\ snap = {}
    /\ todo = {}
    /\ cur = 0
    /\ imported = {}
    /\ critical_issues = {}
    /\ ftQueue = {}
    /\ fast_track_failures = {}
    /\ ftCluster = 0
    /\ resQueue = {}
    /\ result = "none"
    /\ scenario = FALSE
    /\ corruptFile = NoFile
    /\ loaded = "none"
    /\ changelog = {}
    /\ publicFiles = [i \in Ids |-> NoPublicFile]
    /\ doc = NoDoc
    /\ gateShown = NothingShown
    /\ schema_version = 1
    /\ draftTitle = "none"
    /\ changelogText = <<>>
    /\ today = 1
    /\ lastRun = NoRun
    /\ passedTriage = FALSE
    /\ issueRank = NoIssueRank
    /\ clusterRank = NoClusterRank
    /\ ev = NoEvent
    /\ reported = {}
    /\ importCount = [i \in Ids |-> 0]

\* ------------------------------------------------- the reporter (external)

\* save_draft_issue, write_text opening the file: it exists, not yet whole.
ReportBegin(i) ==
    /\ draftFiles[i] = "none"
    /\ i \notin reported
    /\ i \notin DOMAIN Load(stateFile).issues
    /\ draftFiles' = [draftFiles EXCEPT ![i] = "partial"]
    /\ ev' = Event("report_begin", i, "ok")
    /\ UNCHANGED <<stateFile, tmpFile, pc, storeLocals, procLocals, histVars, sideVars>>

\* save_draft_issue, write_text done.
ReportFinish(i) ==
    /\ draftFiles[i] = "partial"
    /\ draftFiles' = [draftFiles EXCEPT ![i] = "full"]
    /\ reported' = reported \cup {i}
    /\ ev' = Event("report_finish", i, "ok")
    /\ UNCHANGED <<stateFile, tmpFile, pc, storeLocals, procLocals, importCount,
                   sideVars>>

\* ------------------------------------------------------------ save, by step

\* Mutant of SaveOpen: the text is written over the canonical file itself.
SaveOpenInPlace ==
    /\ pc = "save_open"
    /\ stateFile' = PartialFile
    /\ pc' = "save_write"
    /\ ev' = Event("save_open", 0, "ok")
    /\ UNCHANGED <<tmpFile, draftFiles, storeLocals, procLocals, histVars, sideVars>>

\* tmp.write_text(...): the file is opened and truncated.
SaveOpen ==
    /\ pc = "save_open"
    /\ tmpFile' = PartialFile
    /\ pc' = "save_write"
    /\ ev' = Event("save_open", 0, "ok")
    /\ UNCHANGED <<stateFile, draftFiles, storeLocals, procLocals, histVars, sideVars>>

\* tmp.write_text(...): the whole text is in the temporary file.
SaveWrite ==
    /\ pc = "save_write"
    /\ tmpFile' = FullFile(mem)
    /\ pc' = "save_rename"
    /\ ev' = Event("save_write", 0, "ok")
    /\ UNCHANGED <<stateFile, draftFiles, storeLocals, procLocals, histVars, sideVars>>

\* Mutant of SaveRename: the temporary file is copied and stays.
SaveRenameCopies ==
    /\ pc = "save_rename"
    /\ stateFile' = tmpFile
    /\ pc' = retpc
    /\ importCount' = IF retpc = "id_unlink" /\ importCount[cur] < 2
                      THEN [importCount EXCEPT ![cur] = @ + 1]
                      ELSE importCount
    /\ ev' = Event("save_rename", 0, "ok")
    /\ UNCHANGED <<tmpFile, draftFiles, storeLocals, procLocals, reported,
                   sideVars>>

\* tmp.rename(self.state_path)
SaveRename ==
    /\ pc = "save_rename"
    /\ stateFile' = tmpFile
    /\ tmpFile' = NoFile
    /\ pc' = retpc
    /\ importCount' = IF retpc = "id_unlink" /\ importCount[cur] < 2
                      THEN [importCount EXCEPT ![cur] = @ + 1]
                      ELSE importCount
    /\ ev' = Event("save_rename", 0, "ok")
    /\ UNCHANGED <<draftFiles, storeLocals, procLocals, reported,
                   sideVars>>

\* ---------------------------------------------------- draft intake, by step

\* Mutant of ImportAllStart: the ids already in the state are not looked up.
ImportAllStartNoDedup ==
    /\ pc = "idle"
    /\ snap' = {}
    /\ todo' = {i \in Ids : draftFiles[i] # "none"}
    /\ imported' = {}
    /\ pc' = "ia_loop"
    /\ ev' = Event("import_all_drafts", 0, "started")
    /\ UNCHANGED <<diskVars, retpc, mem, cur, procLocals, histVars, sideVars>>

\* import_all_drafts: state = self.load(); the glob lists the directory.
ImportAllStart ==
    /\ pc = "idle"
    /\ snap' = DOMAIN Load(stateFile).issues
    /\ todo' = {i \in Ids : draftFiles[i] # "none"}
    /\ imported' = {}
    /\ pc' = "ia_loop"
    /\ ev' = Event("import_all_drafts", 0, "started")
    /\ UNCHANGED <<diskVars, retpc, mem, cur, procLocals, histVars, sideVars>>

\* if issue_id in state.issues: path.unlink(); continue
ImportAllSkip(i) ==
    /\ pc = "ia_loop"
    /\ i \in todo
    /\ i \in snap
    /\ draftFiles' = [draftFiles EXCEPT ![i] = "none"]
    /\ todo' = todo \ {i}
    /\ ev' = Event("import_skip", i, "ok")
    /\ UNCHANGED <<stateFile, tmpFile, pc, retpc, mem, snap, cur, imported,
                   procLocals, histVars, sideVars>>

\* Mutant of ImportDraftRead: the draft file is deleted before the save.
ImportDraftReadUnlinkFirst(i) ==
    /\ pc = "ia_loop"
    /\ i \in todo
    /\ i \notin snap
    /\ draftFiles[i] = "full"
    /\ draftFiles' = [draftFiles EXCEPT ![i] = "none"]
    /\ mem' = PutIssue(Load(stateFile), i, DraftIssue)
    /\ cur' = i
    /\ retpc' = "id_unlink"
    /\ pc' = "save_open"
    /\ ev' = Event("import_draft", i, "read")
    /\ UNCHANGED <<stateFile, tmpFile, snap, todo, imported, procLocals, histVars, sideVars>>

\* Mutant of ImportDraftRead: a file cut short is taken as a draft too.
ImportDraftReadAnyFile(i) ==
    /\ pc = "ia_loop"
    /\ i \in todo
    /\ i \notin snap
    /\ mem' = PutIssue(Load(stateFile), i, DraftIssue)
    /\ cur' = i
    /\ retpc' = "id_unlink"
    /\ pc' = "save_open"
    /\ ev' = Event("import_draft", i, "read")
    /\ UNCHANGED <<snap, todo, imported>>
    /\ UNCHANGED <<diskVars, procLocals, histVars, sideVars>>

\* import_draft: json.loads(read_text()), Issue(...), state = self.load(),
\* state.issues[issue.id] = issue. A file cut short raises JSONDecodeError.
ImportDraftRead(i) ==
    /\ pc = "ia_loop"
    /\ i \in todo
    /\ i \notin snap
    /\ IF draftFiles[i] = "full"
       THEN /\ mem' = PutIssue(Load(stateFile), i, DraftIssue)
            /\ cur' = i
            /\ retpc' = "id_unlink"
            /\ pc' = "save_open"
            /\ ev' = Event("import_draft", i, "read")
            /\ UNCHANGED <<snap, todo, imported>>
       ELSE /\ pc' = "idle"
            /\ ev' = Event("import_draft", i, "raised")
            /\ UNCHANGED <<storeLocals>>
    /\ UNCHANGED <<diskVars, procLocals, histVars, sideVars>>

\* import_draft: draft_path.unlink(); imported.append(...)
ImportDraftUnlink ==
    /\ pc = "id_unlink"
    /\ draftFiles' = [draftFiles EXCEPT ![cur] = "none"]
    /\ imported' = imported \cup {cur}
    /\ todo' = todo \ {cur}
    /\ pc' = "ia_loop"
    /\ ev' = Event("import_draft", cur, "ok")
    /\ UNCHANGED <<stateFile, tmpFile, retpc, mem, snap, cur, procLocals, histVars, sideVars>>

\* import_all_drafts: return imported
ImportAllReturn ==
    /\ pc = "ia_loop"
    /\ todo = {}
    /\ pc' = "idle"
    /\ ev' = Event("import_all_drafts", 0, "ok")
    /\ UNCHANGED <<diskVars, storeLocals, procLocals, histVars, sideVars>>

\* defer_issue up to its save: load, set the status.
DeferIssueBegin(i) ==
    /\ pc = "idle"
    /\ i \in DOMAIN Load(stateFile).issues
    /\ mem' = SetStatus(Load(stateFile), i, "deferred")
    /\ retpc' = "idle"
    /\ pc' = "save_open"
    /\ ev' = Event("defer_issue", i, "started")
    /\ UNCHANGED <<diskVars, snap, todo, cur, imported, procLocals, histVars, sideVars>>

\* The process dies: what it held in memory is gone, the files stay.
Crash ==
    /\ pc # "idle"
    /\ pc' = "idle"
    /\ retpc' = "idle"
    /\ mem' = EmptyState
    /\ snap' = {}
    /\ todo' = {}
    /\ cur' = 0
    /\ imported' = {}
    /\ critical_issues' = {}
    /\ ftQueue' = {}
    /\ fast_track_failures' = {}
    /\ ftCluster' = 0
    /\ resQueue' = {}
    /\ result' = "none"
    /\ scenario' = FALSE
    /\ ev' = Event("crash", 0, pc)
    /\ UNCHANGED <<diskVars, histVars, sideVars>>

NextStore ==
    \/ \E i \in Ids : ReportBegin(i)
    \/ \E i \in Ids : ReportFinish(i)
    \/ SaveOpen
    \/ SaveWrite
    \/ SaveRename
    \/ ImportAllStart
    \/ \E i \in Ids : ImportAllSkip(i)
    \/ \E i \in Ids : ImportDraftRead(i)
    \/ ImportDraftUnlink
    \/ ImportAllReturn
    \/ \E i \in Ids : DeferIssueBegin(i)
    \/ Crash

SpecStore == Init /\ [][NextStore]_vars

\* ---------------------------------------------------------------- pipeline
\* One step per stage: the handler's load, agent call, merge and save. The
\* agent is an opaque collaborator: its answer is any value of the sets
\* below; a human gate answers either way.

\* What an agent's entry for an issue says about its severity: nothing, or
\* critical (the one severity the workflow reads).
SevOpts == {"omit", "critical"}

\* The per-issue entries of an agent's answer: any ids, those of issues that
\* were not sent to it and of issues that do not exist included.
IssueEntries == UNION {[R -> SevOpts] : R \in SUBSET Ids}
PlainEntries == UNION {[R -> {"omit"}] : R \in SUBSET Ids}

\* A cluster definition of the clustering agent: with an id or without.
ClusterDefs ==
    {[named |-> TRUE, id |-> n, issue_ids |-> s] : n \in NamedIds, s \in SUBSET Ids}
    \cup {[named |-> FALSE, id |-> 0, issue_ids |-> s] : s \in SUBSET Ids}
DefSeqs == UNION {[1..n -> ClusterDefs] : n \in 0..MaxDefs}

\* _run_agent: None (the run failed, or its output held no JSON), output
\* whose entries the merge cannot read (it raises), or structured output.
AgentFailed == [kind |-> "fail", issues |-> EmptyMap, clusters |-> <<>>]
AgentMalformed == [kind |-> "malformed", issues |-> EmptyMap, clusters |-> <<>>]
AgentData(f, cs) == [kind |-> "data", issues |-> f, clusters |-> cs]

TriageOutputs ==
    {AgentFailed, AgentMalformed} \cup {AgentData(f, <<>>) : f \in IssueEntries}
ClusteringOutputs ==
    {AgentFailed, AgentMalformed}
    \cup {AgentData(f, cs) : f \in PlainEntries, cs \in DefSeqs}
PrioritizationOutputs ==
    {AgentFailed, AgentMalformed} \cup {AgentData(f, <<>>) : f \in IssueEntries}

\* The resolution agent: failure, or a dict whose action is implemented,
\* needs_approval, or anything else (no action, another word, a list).
ResolutionResults == {"fail", "implemented", "needs_approval", "other"}

\* The runs of run_resolution: the agent's first result, the answer of the
\* plan gate (asked after needs_approval only) and the agent's second result
\* (it is invoked again after an approval only).
ResolutionRuns ==
    {<<r1, FALSE, r1>> : r1 \in ResolutionResults}
    \cup {<<"needs_approval", TRUE, r2>> : r2 \in ResolutionResults}

IssuesWith(st, statuses) == {i \in DOMAIN st.issues : st.issues[i].status \in statuses}

\* import_all_drafts as run_triage calls it, from the first file to the
\* return: the drafts in `visited` are imported or, when their id is known,
\* skipped.
ImportAllDrafts(st, visited) ==
    [st EXCEPT !.issues = [i \in (DOMAIN st.issues) \cup visited |->
                              IF i \in DOMAIN st.issues THEN st.issues[i]
                              ELSE DraftIssue]]

\* Mutant of TriageMerge: every draft of the state becomes triaged, returned
\* by the agent or not.
TriageMergeEveryDraft(st, f) ==
    [st EXCEPT !.issues = [i \in DOMAIN st.issues |->
        IF i \in DOMAIN f \/ st.issues[i].status = "draft"
        THEN [status |-> "triaged",
              severity |-> IF i \in DOMAIN f /\ f[i] # "omit" THEN f[i]
                           ELSE st.issues[i].severity]
        ELSE st.issues[i]]]

\* run_triage, the merge: every returned id that is in the state.
TriageMerge(st, f) ==
    [st EXCEPT !.issues = [i \in DOMAIN st.issues |->
        IF i \in DOMAIN f
        THEN [status |-> "triaged",
              severity |-> IF f[i] = "omit" THEN st.issues[i].severity ELSE f[i]]
        ELSE st.issues[i]]]

\* run_triage: import_all_drafts (every draft file is imported or, its id
\* being known, skipped, and deleted), the agent on the drafts, the merge.
TriageResult(out) ==
    LET st0 == Load(stateFile)
        files == {i \in Ids : draftFiles[i] # "none"}
        new == files \ DOMAIN st0.issues
        st1 == ImportAllDrafts(st0, files)
        file1 == IF new # {} THEN FullFile(st1) ELSE stateFile
        outcome == IF IssuesWith(st1, {"draft"}) = {} THEN "nothing"
                   ELSE IF out.kind = "fail" THEN "fail"
                   ELSE IF out.kind = "malformed" THEN "raised"
                   ELSE "ok"
    IN  [file |-> IF outcome = "ok" THEN FullFile(TriageMerge(st1, out.issues))
                  ELSE file1,
         new |-> new,
         calls |-> IF outcome = "nothing" THEN 0 ELSE 1,
         outcome |-> outcome]

\* cluster_id = id or f"cluster-{len(state.clusters)}";
\* state.clusters[cluster.id] = IssueCluster(...) (status pending).
AddCluster(clusters, d) ==
    LET cid == IF d.named THEN d.id ELSE Cardinality(DOMAIN clusters)
    IN  [c \in (DOMAIN clusters) \cup {cid} |->
            IF c = cid THEN [status |-> "pending", issue_ids |-> d.issue_ids]
            ELSE clusters[c]]

RECURSIVE AddClusters(_, _)
AddClusters(clusters, defs) ==
    IF defs = <<>> THEN clusters
    ELSE AddClusters(AddCluster(clusters, Head(defs)), Tail(defs))

\* run_clustering, the merge.
ClusteringMerge(st, out) ==
    [issues |-> [i \in DOMAIN st.issues |->
                    IF i \in DOMAIN out.issues
                    THEN [st.issues[i] EXCEPT !.status = "clustered"]
                    ELSE st.issues[i]],
     clusters |-> AddClusters(st.clusters, out.clusters)]

\* run_clustering.
ClusteringResult(out) ==
    LET st == Load(stateFile)
        outcome == IF IssuesWith(st, {"triaged"}) = {} THEN "nothing"
                   ELSE IF out.kind = "fail" THEN "fail"
                   ELSE IF out.kind = "malformed" THEN "raised"
                   ELSE "ok"
    IN  [file |-> IF outcome = "ok" THEN FullFile(ClusteringMerge(st, out))
                  ELSE stateFile,
         calls |-> IF outcome = "nothing" THEN 0 ELSE 1,
         outcome |-> outcome]

\* run_prioritization, the merge (in memory).
PrioritizationMerge(st, f) ==
    [st EXCEPT !.issues = [i \in DOMAIN st.issues |->
        IF i \in DOMAIN f
        THEN [status |-> "prioritized",
              severity |-> IF f[i] = "omit" THEN st.issues[i].severity ELSE f[i]]
        ELSE st.issues[i]]]

\* Mutant of PrioritizationResult: the merged state is saved before the gate
\* is asked.
PrioritizationResultSaveBeforeGate(out, approved) ==
    LET st == Load(stateFile)
        outcome == IF IssuesWith(st, {"triaged", "clustered"}) = {} THEN "nothing"
                   ELSE IF out.kind = "fail" THEN "fail"
                   ELSE IF out.kind = "malformed" THEN "raised"
                   ELSE IF ~approved THEN "rejected"
                   ELSE "ok"
    IN  [file |-> IF outcome \in {"ok", "rejected"}
                  THEN FullFile(PrioritizationMerge(st, out.issues))
                  ELSE stateFile,
         calls |-> IF outcome = "nothing" THEN 0 ELSE 1,
         outcome |-> outcome]

\* run_prioritization: the merged state is saved after the gate approved.
PrioritizationResult(out, approved) ==
    LET st == Load(stateFile)
        outcome == IF IssuesWith(st, {"triaged", "clustered"}) = {} THEN "nothing"
                   ELSE IF out.kind = "fail" THEN "fail"
                   ELSE IF out.kind = "malformed" THEN "raised"
                   ELSE IF ~approved THEN "rejected"
                   ELSE "ok"
    IN  [file |-> IF outcome = "ok" THEN FullFile(PrioritizationMerge(st, out.issues))
                  ELSE stateFile,
         calls |-> IF outcome = "nothing" THEN 0 ELSE 1,
         outcome |-> outcome]

\* run_resolution, lines 407-411: the cluster and its issues become resolved.
MarkResolved(st, c) ==
    [issues |-> [i \in DOMAIN st.issues |->
                    IF i \in st.clusters[c].issue_ids
                    THEN [st.issues[i] EXCEPT !.status = "resolved"]
                    ELSE st.issues[i]],
     clusters |-> [st.clusters EXCEPT ![c].status = "resolved"]]

\* Mutant of MayResolve: the status of the cluster is not looked at.
MayResolveAnyStatus(st, c) ==
    c \in DOMAIN st.clusters

\* run_resolution, lines 348-359: the cluster is known and approved.
MayResolve(st, c) ==
    c \in DOMAIN st.clusters /\ st.clusters[c].status = "approved"

\* Mutant of ResolutionResult: the agent is invoked again whatever the plan
\* gate answered.
ResolutionResultNoGate(c, r1, approved, r2) ==
    LET st == Load(stateFile)
        none == [file |-> stateFile, calls |-> 0, final |-> "none", outcome |-> "refused"]
    IN  IF ~MayResolve(st, c) THEN none
        ELSE IF r1 = "fail"
             THEN [none EXCEPT !.calls = 1, !.final = r1, !.outcome = "fail"]
        ELSE IF r1 = "needs_approval"
             THEN [file |-> FullFile(MarkResolved(st, c)), calls |-> 2,
                   final |-> r2, outcome |-> "ok"]
        ELSE [file |-> FullFile(MarkResolved(st, c)), calls |-> 1,
              final |-> r1, outcome |-> "ok"]

\* run_resolution(c). r1: the agent's first result; approved: the answer of
\* the plan gate; r2: the agent's result when invoked again.
ResolutionResult(c, r1, approved, r2) ==
    LET st == Load(stateFile)
        none == [file |-> stateFile, calls |-> 0, final |-> "none", outcome |-> "refused"]
    IN  IF ~MayResolve(st, c) THEN none
        ELSE IF r1 = "fail"
             THEN [none EXCEPT !.calls = 1, !.final = r1, !.outcome = "fail"]
        ELSE IF r1 = "needs_approval" /\ ~approved
             THEN [none EXCEPT !.calls = 1, !.final = r1, !.outcome = "rejected"]
        ELSE IF r1 = "needs_approval"
             THEN [file |-> FullFile(MarkResolved(st, c)), calls |-> 2,
                   final |-> r2, outcome |-> "ok"]
        ELSE [file |-> FullFile(MarkResolved(st, c)), calls |-> 1,
              final |-> r1, outcome |-> "ok"]

\* WorkflowResult.success of a stage, or the exception that left it.
Returned(outcome) ==
    IF outcome \in {"ok", "nothing"} THEN "success"
    ELSE IF outcome = "raised" THEN "raised"
    ELSE "failure"

CountImports(new) ==
    [i \in Ids |-> IF i \in new /\ importCount[i] < 2 THEN importCount[i] + 1
                   ELSE importCount[i]]

\* The locals of process() and its result are gone once another operation
\* starts.
ProcLocalsReset ==
    /\ critical_issues' = {}
    /\ ftQueue' = {}
    /\ fast_track_failures' = {}
    /\ ftCluster' = 0
    /\ resQueue' = {}
    /\ cur' = 0
    /\ result' = "none"
    /\ scenario' = FALSE

pipeLocals == <<retpc, mem, snap, todo, imported, ev>>

\* save_draft_issue, from the pipeline's side: a new draft file is there.
ReportDraft(i) ==
    /\ draftFiles[i] = "none"
    /\ i \notin reported
    /\ i \notin DOMAIN Load(stateFile).issues
    /\ draftFiles' = [draftFiles EXCEPT ![i] = "full"]
    /\ reported' = reported \cup {i}
    /\ UNCHANGED <<stateFile, tmpFile, pc, storeLocals, procLocals, importCount, ev,
                   sideVars>>

\* run_triage, called on its own, the agent answering out.
RunTriageWith(out) ==
    /\ pc = "idle"
    /\ LET r == TriageResult(out) IN
        /\ stateFile' = r.file
        /\ importCount' = CountImports(r.new)
    /\ draftFiles' = [i \in Ids |-> "none"]
    /\ ProcLocalsReset
    /\ UNCHANGED <<tmpFile, pc, pipeLocals, reported,
                   sideVars>>

RunTriage == \E out \in TriageOutputs : RunTriageWith(out)

\* run_clustering, called on its own. The names stay among NamedIds.
RunClusteringWith(out) ==
    /\ pc = "idle"
    /\ LET r == ClusteringResult(out) IN
        /\ DOMAIN r.file.data.clusters \subseteq ClusterIds
        /\ stateFile' = r.file
    /\ ProcLocalsReset
    /\ UNCHANGED <<tmpFile, draftFiles, pc, pipeLocals, histVars, sideVars>>

RunClustering == \E out \in ClusteringOutputs : RunClusteringWith(out)

\* run_prioritization, called on its own.
RunPrioritizationWith(out, approved) ==
    /\ pc = "idle"
    /\ stateFile' = PrioritizationResult(out, approved).file
    /\ ProcLocalsReset
    /\ UNCHANGED <<tmpFile, draftFiles, pc, pipeLocals, histVars, sideVars>>

RunPrioritization ==
    \E out \in PrioritizationOutputs, approved \in BOOLEAN :
        RunPrioritizationWith(out, approved)

\* run_resolution(c), called on its own.
RunResolutionWith(c, run) ==
    /\ pc = "idle"
    /\ stateFile' = ResolutionResult(c, run[1], run[2], run[3]).file
    /\ ProcLocalsReset
    /\ UNCHANGED <<tmpFile, draftFiles, pc, pipeLocals, histVars, sideVars>>

RunResolution(c) == \E run \in ResolutionRuns : RunResolutionWith(c, run)

\* approve_cluster(c): the file it leaves and what it returns.
ApproveResult(c) ==
    LET st == Load(stateFile) IN
    IF c \in DOMAIN st.clusters
    THEN [file |-> FullFile([st EXCEPT !.clusters[c].status = "approved"]),
          outcome |-> "ok"]
    ELSE [file |-> stateFile, outcome |-> "not_found"]

\* approve_cluster(c)
ApproveCluster(c) ==
    /\ pc = "idle"
    /\ stateFile' = ApproveResult(c).file
    /\ ProcLocalsReset
    /\ UNCHANGED <<tmpFile, draftFiles, pc, pipeLocals, histVars, sideVars>>

\* defer_issue(i) (s = "deferred") and wontfix_issue(i) (s = "wont_fix"):
\* the file it leaves and what it returns.
ManualResult(i, s) ==
    LET st == Load(stateFile) IN
    IF i \in DOMAIN st.issues
    THEN [file |-> FullFile(SetStatus(st, i, s)), outcome |-> "ok"]
    ELSE [file |-> stateFile, outcome |-> "not_found"]

\* defer_issue(i)
DeferIssue(i) ==
    /\ pc = "idle"
    /\ stateFile' = ManualResult(i, "deferred").file
    /\ ProcLocalsReset
    /\ UNCHANGED <<tmpFile, draftFiles, pc, pipeLocals, histVars, sideVars>>

\* wontfix_issue(i)
WontfixIssue(i) ==
    /\ pc = "idle"
    /\ stateFile' = ManualResult(i, "wont_fix").file
    /\ ProcLocalsReset
    /\ UNCHANGED <<tmpFile, draftFiles, pc, pipeLocals, histVars, sideVars>>

\* The end-to-end scenario, stage by stage. Triage: the state holds drafts
\* only, one per id, and no cluster; the agent answers for exactly these and
\* makes some of them critical and some not.
ScenarioTriage(out) ==
    LET st == ImportAllDrafts(Load(stateFile), {i \in Ids : draftFiles[i] # "none"})
    IN  /\ DOMAIN st.issues = Ids
        /\ IssuesWith(st, {"draft"}) = Ids
        /\ DOMAIN st.clusters = {}
        /\ out.kind = "data"
        /\ DOMAIN out.issues = Ids
        /\ \E i, j \in Ids : out.issues[i] = "critical" /\ out.issues[j] # "critical"

\* Clustering: the agent answers for exactly the triaged issues and puts
\* each of them in a cluster.
ScenarioClustering(out) ==
    LET triaged == IssuesWith(Load(stateFile), {"triaged"})
    IN  /\ out.kind = "data"
        /\ DOMAIN out.issues = triaged
        /\ out.clusters # <<>>
        /\ UNION {out.clusters[k].issue_ids : k \in DOMAIN out.clusters} = triaged

\* Prioritization: the agent answers for exactly the issues sent to it and
\* the gate approves.
ScenarioPrioritization(out, approved) ==
    /\ approved
    /\ out.kind = "data"
    /\ DOMAIN out.issues = IssuesWith(Load(stateFile), {"triaged", "clustered"})

\* Resolution: the agent implements, at once or after its plan was approved.
ScenarioResolution(run) ==
    run[3] = "implemented" /\ (run[1] = "implemented" \/ run[2])

\* process(), lines 557-567: run_triage, then the critical issues are listed.
ProcessTriageWith(out) ==
    /\ pc = "idle"
    /\ LET r == TriageResult(out)
           ok == Returned(r.outcome) = "success"
           crit == {i \in IssuesWith(r.file.data, {"triaged"}) :
                       r.file.data.issues[i].severity = "critical"}
       IN
        /\ stateFile' = r.file
        /\ importCount' = CountImports(r.new)
        /\ critical_issues' = IF ok THEN crit ELSE {}
        /\ ftQueue' = IF ok THEN crit ELSE {}
        /\ pc' = IF ~ok THEN "idle" ELSE IF crit # {} THEN "fast" ELSE "cluster"
        /\ result' = IF ok THEN "none"
                     ELSE IF r.outcome = "raised" THEN "raised"
                     ELSE "triage_failed"
    /\ scenario' = ScenarioTriage(out)
    /\ draftFiles' = [i \in Ids |-> "none"]
    /\ fast_track_failures' = {}
    /\ ftCluster' = 0
    /\ resQueue' = {}
    /\ cur' = 0
    /\ UNCHANGED <<tmpFile, pipeLocals, reported,
                   sideVars>>

ProcessTriage == \E out \in TriageOutputs : ProcessTriageWith(out)

\* IssueCluster(): a fresh uuid id.
FreshClusterId(st) ==
    CHOOSE c \in UuidIds \ DOMAIN st.clusters :
        \A d \in UuidIds \ DOMAIN st.clusters : d <= c

\* Mutant of FastTrackCommit: the singleton cluster is left pending.
FastTrackCommitPending(st, i, c) ==
    PutIssue([st EXCEPT !.clusters =
                 [d \in (DOMAIN st.clusters) \cup {c} |->
                     IF d = c THEN [status |-> "pending", issue_ids |-> {i}]
                     ELSE st.clusters[d]]],
             i, [status |-> "prioritized", severity |-> "critical"])

\* _fast_track_resolve(issue), lines 427-442: the singleton cluster, approved,
\* and the issue object of process(), now prioritized, are put and saved.
FastTrackCommit(st, i, c) ==
    PutIssue([st EXCEPT !.clusters =
                 [d \in (DOMAIN st.clusters) \cup {c} |->
                     IF d = c THEN [status |-> "approved", issue_ids |-> {i}]
                     ELSE st.clusters[d]]],
             i, [status |-> "prioritized", severity |-> "critical"])

ProcessFastTrackSave(i) ==
    /\ pc = "fast"
    /\ i \in ftQueue
    /\ LET st == Load(stateFile) IN
        /\ UuidIds \ DOMAIN st.clusters # {}
        /\ ftCluster' = FreshClusterId(st)
        /\ stateFile' = FullFile(FastTrackCommit(st, i, FreshClusterId(st)))
    /\ cur' = i
    /\ pc' = "ft_resolve"
    /\ UNCHANGED <<tmpFile, draftFiles, pipeLocals, critical_issues, ftQueue,
                   fast_track_failures, resQueue, result, scenario, histVars,
                   sideVars>>

\* _fast_track_resolve, line 445, and process(), lines 573-574.
ProcessFastTrackResolveWith(run) ==
    /\ pc = "ft_resolve"
    /\ LET r == ResolutionResult(ftCluster, run[1], run[2], run[3]) IN
        /\ stateFile' = r.file
        /\ fast_track_failures' = IF r.outcome = "ok" THEN fast_track_failures
                                  ELSE fast_track_failures \cup {<<cur, r.outcome>>}
    /\ ftQueue' = ftQueue \ {cur}
    /\ pc' = IF ftQueue \ {cur} # {} THEN "fast" ELSE "cluster"
    /\ cur' = 0
    /\ ftCluster' = 0
    /\ scenario' = (scenario /\ ScenarioResolution(run))
    /\ UNCHANGED <<tmpFile, draftFiles, pipeLocals, critical_issues, resQueue,
                   result, histVars, sideVars>>

ProcessFastTrackResolve == \E run \in ResolutionRuns : ProcessFastTrackResolveWith(run)

\* Mutant of ProcessClusteringWith: process() goes on to prioritization
\* whatever run_clustering returned.
ProcessClusteringGoesOn(out) ==
    /\ pc = "cluster"
    /\ LET r == ClusteringResult(out)
           ok == Returned(r.outcome) = "success"
       IN
        /\ DOMAIN r.file.data.clusters \subseteq ClusterIds
        /\ stateFile' = r.file
        /\ pc' = "prioritize"
        /\ result' = IF ok THEN "none"
                     ELSE IF r.outcome = "raised" THEN "raised"
                     ELSE "clustering_failed"
    /\ scenario' = (scenario /\ ScenarioClustering(out))
    /\ UNCHANGED <<tmpFile, draftFiles, pipeLocals, cur, critical_issues, ftQueue,
                   fast_track_failures, ftCluster, resQueue, histVars, sideVars>>

\* process(), lines 580-583.
ProcessClusteringWith(out) ==
    /\ pc = "cluster"
    /\ LET r == ClusteringResult(out)
           ok == Returned(r.outcome) = "success"
       IN
        /\ DOMAIN r.file.data.clusters \subseteq ClusterIds
        /\ stateFile' = r.file
        /\ pc' = IF ok THEN "prioritize" ELSE "idle"
        /\ result' = IF ok THEN "none"
                     ELSE IF r.outcome = "raised" THEN "raised"
                     ELSE "clustering_failed"
    /\ scenario' = (scenario /\ ScenarioClustering(out))
    /\ UNCHANGED <<tmpFile, draftFiles, pipeLocals, cur, critical_issues, ftQueue,
                   fast_track_failures, ftCluster, resQueue, histVars, sideVars>>

ProcessClustering == \E out \in ClusteringOutputs : ProcessClusteringWith(out)

\* process(), lines 585-602: run_prioritization, then the approved clusters
\* are listed; with none the run pauses.
ProcessPrioritizationWith(out, approved) ==
    /\ pc = "prioritize"
    /\ LET r == PrioritizationResult(out, approved)
           ok == Returned(r.outcome) = "success"
           st == r.file.data
           appr == {c \in DOMAIN st.clusters : st.clusters[c].status = "approved"}
       IN
        /\ stateFile' = r.file
        /\ resQueue' = IF ok THEN appr ELSE {}
        /\ pc' = IF ok /\ appr # {} THEN "resolve" ELSE "idle"
        /\ result' = IF r.outcome = "raised" THEN "raised"
                     ELSE IF r.outcome = "fail" THEN "prioritization_failed"
                     ELSE IF r.outcome = "rejected" THEN "rejected"
                     ELSE IF appr = {} THEN "paused"
                     ELSE "none"
    /\ scenario' = (scenario /\ ScenarioPrioritization(out, approved))
    /\ UNCHANGED <<tmpFile, draftFiles, pipeLocals, cur, critical_issues, ftQueue,
                   fast_track_failures, ftCluster, histVars, sideVars>>

ProcessPrioritization ==
    \E out \in PrioritizationOutputs, approved \in BOOLEAN :
        ProcessPrioritizationWith(out, approved)

\* process(), lines 604-611: run_resolution for each approved cluster; the
\* run then returns "Pipeline complete.".
ProcessResolveWith(c, run) ==
    /\ pc = "resolve"
    /\ c \in resQueue
    /\ stateFile' = ResolutionResult(c, run[1], run[2], run[3]).file
    /\ resQueue' = resQueue \ {c}
    /\ pc' = IF resQueue = {c} THEN "idle" ELSE "resolve"
    /\ result' = IF resQueue = {c} THEN "complete" ELSE "none"
    /\ scenario' = (scenario /\ ScenarioResolution(run))
    /\ UNCHANGED <<tmpFile, draftFiles, pipeLocals, cur, critical_issues, ftQueue,
                   fast_track_failures, ftCluster, histVars, sideVars>>

ProcessResolve(c) == \E run \in ResolutionRuns : ProcessResolveWith(c, run)

\* The process dies inside process().
ProcessCrash ==
    /\ pc \in {"fast", "ft_resolve", "cluster", "prioritize", "resolve"}
    /\ pc' = "idle"
    /\ ProcLocalsReset
    /\ UNCHANGED <<diskVars, pipeLocals, histVars, sideVars>>

Next ==
    \/ \E i \in Ids : ReportDraft(i)
    \/ RunTriage
    \/ RunClustering
    \/ RunPrioritization
    \/ \E c \in ClusterIds : RunResolution(c)
    \/ \E c \in ClusterIds : ApproveCluster(c)
    \/ \E i \in Ids : DeferIssue(i)
    \/ \E i \in Ids : WontfixIssue(i)
    \/ ProcessTriage
    \/ \E i \in Ids : ProcessFastTrackSave(i)
    \/ ProcessFastTrackResolve
    \/ ProcessClustering
    \/ ProcessPrioritization
    \/ \E c \in ClusterIds : ProcessResolve(c)
    \/ ProcessCrash

Spec == Init /\ [][Next]_vars

\* ------------------------------------------------- claims about the store

Persisted == Load(stateFile)

\* C1: save is atomic. In every step, crashes included, the canonical file
\* either keeps its content (the previously saved state) or becomes, by the
\* rename, the complete state being saved; it is never a file cut short.
C1_SaveAtomic ==
    [][\/ stateFile' = stateFile
       \/ pc = "save_rename" /\ stateFile' = FullFile(mem)]_vars

\* A crash while the temporary file was only partly written, a complete
\* earlier state being in the canonical file.
C1_Witness ==
    /\ ev.op = "crash"
    /\ ev.outcome = "save_write"
    /\ tmpFile.kind = "partial"
    /\ stateFile.kind = "full"
    /\ DOMAIN stateFile.data.issues # {}

\* C2: import_draft deletes the draft file only after the state holding the
\* issue is saved: every completely written draft is, in every reachable
\* state (after a crash at any step too), in its draft file or in the
\* persisted state.
C2_DraftNeverLost ==
    \A i \in reported : draftFiles[i] = "full" \/ i \in DOMAIN Persisted.issues

\* A crash between the commit and the deletion: the draft is in both places.
C2_Witness ==
    /\ ev.op = "crash"
    /\ ev.outcome = "id_unlink"
    /\ \E i \in reported : draftFiles[i] = "full" /\ i \in DOMAIN Persisted.issues

IntakeStep ==
    \/ pc \in {"ia_loop", "id_unlink"}
    \/ pc \in {"save_open", "save_write", "save_rename"} /\ retpc = "id_unlink"

\* C3: import_all_drafts is idempotent. No step of the intake changes an
\* issue that is already in the persisted state (it keeps its status and
\* its fields), and over any number of calls and crashes each draft is
\* committed by import_draft (and so returned) at most once.
C3_ImportIdempotent ==
    [][/\ IntakeStep =>
            \A i \in DOMAIN Persisted.issues :
                /\ i \in DOMAIN Persisted'.issues
                /\ Persisted'.issues[i] = Persisted.issues[i]
       /\ \A i \in Ids : importCount'[i] <= 1]_vars

\* The draft file of an issue imported earlier (and deferred since) is
\* met again by import_all_drafts and skipped.
C3_Witness ==
    /\ ev.op = "import_skip"
    /\ StatusOf(Persisted, ev.arg) = "deferred"
    /\ importCount[ev.arg] = 1
    /\ draftFiles[ev.arg] = "none"

\* ---------------------------------------------- claims about the pipeline

ClusterStatus(st, c) ==
    IF c \in DOMAIN st.clusters THEN st.clusters[c].status ELSE "absent"

\* The step is one of run_resolution(c), on its own or inside process().
ResolutionStep(c, run) ==
    \/ RunResolutionWith(c, run)
    \/ ProcessResolveWith(c, run)
    \/ c = ftCluster /\ ProcessFastTrackResolveWith(run)

\* C4: run_resolution moves a cluster and its member issues to resolved only
\* when the agent's final result signals 'implemented'; after a failure, a
\* second needs_approval or any other result nothing becomes resolved.
C4_ResolvedOnlyWhenImplemented ==
    [][\A c \in ClusterIds :
         stateFile' # stateFile =>
            \A run \in ResolutionRuns :
               ResolutionStep(c, run) =>
                  ResolutionResult(c, run[1], run[2], run[3]).final = "implemented"]_vars

\* C5: a cluster becomes resolved only from approved, and run_resolution
\* neither invokes the agent for nor changes a cluster that is unknown or
\* not approved.
C5_ResolveOnlyApproved ==
    [][\A c \in ClusterIds :
         /\ (ClusterStatus(Persisted', c) = "resolved"
                /\ ClusterStatus(Persisted, c) # "resolved")
            => ClusterStatus(Persisted, c) = "approved"
         /\ ClusterStatus(Persisted, c) # "approved" =>
               \A run \in ResolutionRuns :
                  LET r == ResolutionResult(c, run[1], run[2], run[3])
                  IN  r.calls = 0 /\ r.file = stateFile]_vars

\* A run of process() that resolved a cluster has returned, and another
\* cluster is there that run_resolution refuses.
C5_Witness ==
    /\ pc = "idle"
    /\ result = "complete"
    /\ \E c, d \in ClusterIds :
          /\ ClusterStatus(Persisted, c) = "resolved"
          /\ ClusterStatus(Persisted, d) = "pending"

\* C6: a rejected prioritization gate leaves the persisted state as it was
\* before run_prioritization; what earlier stages of the run saved stays.
C6_RejectionLeavesState ==
    [][/\ (pc = "prioritize" /\ result' = "rejected") => stateFile' = stateFile
       /\ stateFile' # stateFile =>
             \A out \in PrioritizationOutputs :
                ~RunPrioritizationWith(out, FALSE)]_vars

\* process() returned after the gate rejected, with an issue the clustering
\* stage of the run had saved as clustered.
C6_Witness ==
    /\ pc = "idle"
    /\ result = "rejected"
    /\ \E i \in Ids : StatusOf(Persisted, i) = "clustered"
    /\ \A i \in Ids : StatusOf(Persisted, i) # "prioritized"

\* process() returned a WorkflowResult.
ProcessReturned == pc = "idle" /\ result \notin {"none", "raised"}

\* C7: every issue that was critical after triage is, when process()
\* returns, resolved or in the fast-track failure list.
C7_FastTrackInvariant ==
    ProcessReturned =>
        \A i \in critical_issues :
            \/ StatusOf(Persisted, i) = "resolved"
            \/ \E f \in fast_track_failures : f[1] = i

StatusChanged(i) ==
    /\ i \in DOMAIN Persisted.issues
    /\ i \in DOMAIN Persisted'.issues
    /\ Persisted'.issues[i].status # Persisted.issues[i].status

TriageStep == \E out \in TriageOutputs : RunTriageWith(out) \/ ProcessTriageWith(out)
ClusteringStep ==
    \E out \in ClusteringOutputs : RunClusteringWith(out) \/ ProcessClusteringWith(out)
PrioritizationStep ==
    \E out \in PrioritizationOutputs, approved \in BOOLEAN :
        RunPrioritizationWith(out, approved) \/ ProcessPrioritizationWith(out, approved)
AnyResolutionStep == \E c \in ClusterIds, run \in ResolutionRuns : ResolutionStep(c, run)

\* C8: a stage changes the status of an issue only along its edge of the
\* status machine, whatever ids the agent returns: triage draft -> triaged,
\* clustering triaged -> clustered, prioritization triaged or clustered ->
\* prioritized, resolution prioritized -> resolved.
C8_StagesFollowEdges ==
    [][\A i \in Ids :
         StatusChanged(i) =>
            LET a == Persisted.issues[i].status
                b == Persisted'.issues[i].status
            IN  /\ TriageStep => a = "draft" /\ b = "triaged"
                /\ ClusteringStep => a = "triaged" /\ b = "clustered"
                /\ PrioritizationStep => a \in {"triaged", "clustered"} /\ b = "prioritized"
                /\ AnyResolutionStep => a = "prioritized" /\ b = "resolved"]_vars

\* C9: defer_issue and wontfix_issue leave an issue that is resolved,
\* deferred or wont_fix as it is.
C9_ManualOnlyFromOpen ==
    [][\A i \in Ids :
         (StatusChanged(i) /\ (DeferIssue(i) \/ WontfixIssue(i)))
            => Persisted.issues[i].status \in {"draft", "triaged", "clustered", "prioritized"}]_vars

\* C10: the status of a cluster only moves forward: a resolved cluster stays
\* resolved, an approved cluster is never pending again.
C10_ClusterStatusForward ==
    [][\A c \in DOMAIN Persisted.clusters :
         /\ ClusterStatus(Persisted, c) = "resolved"
               => ClusterStatus(Persisted', c) = "resolved"
         /\ ClusterStatus(Persisted, c) = "approved"
               => ClusterStatus(Persisted', c) \in {"approved", "resolved"}]_vars

\* ------------------------------------------------------------------ load()
\* SpecLoad: load() on whatever the state file holds.

\* A state file that save() did not write, as far as load() reads it:
\*   json     json.loads parses the text
\*   top      the top-level value: an object, or another JSON value
\*   version  data["schema_version"]: below CURRENT_VERSION or missing
\*            ("old"), current, or not comparable with a number
\*   issues   data["issues"]: a map of objects, not a map, or a map with a
\*            value that is not an object
\*   valid    IssueState.model_validate accepts the data
RawFile(json, top, version, issues, valid) ==
    [kind |-> "raw", data |-> EmptyState, json |-> json, top |-> top,
     version |-> version, issues |-> issues, valid |-> valid]

RawFiles ==
    {RawFile(FALSE, "other", "old", "map", FALSE),
     RawFile(TRUE, "other", "old", "map", FALSE),
     RawFile(TRUE, "object", "uncomparable", "map", FALSE)}
    \cup {RawFile(TRUE, "object", v, i, FALSE) :
            v \in {"old", "current"}, i \in {"map", "not_map", "bad_values"}}

\* load(), lines 39-47: how far it gets. "fresh": no file; "state": the
\* validated state; otherwise the exception raised.
LoadOutcome(f) ==
    IF f.kind = "absent" THEN "fresh"
    ELSE IF f.kind = "full" THEN "state"
    ELSE IF f.kind = "partial" THEN "JSONDecodeError"
    ELSE IF ~f.json THEN "JSONDecodeError"
    ELSE IF f.top # "object" THEN "AttributeError"
    ELSE IF f.version = "uncomparable" THEN "TypeError"
    ELSE IF f.version = "old" /\ f.issues # "map" THEN "AttributeError"
    ELSE IF ~f.valid THEN "ValidationError"
    ELSE "state"

\* load(), line 48: except (json.JSONDecodeError, ValidationError)
Caught == {"JSONDecodeError", "ValidationError"}

\* load(), whole: a caught exception renames the file to .corrupt and a
\* fresh state is returned; another exception leaves load().
LoadCall ==
    /\ pc = "idle"
    /\ LET o == LoadOutcome(stateFile) IN
        /\ stateFile' = IF o \in Caught THEN NoFile ELSE stateFile
        /\ corruptFile' = IF o \in Caught THEN stateFile ELSE corruptFile
        /\ loaded' = IF o \in Caught \cup {"fresh"} THEN "empty" ELSE o
    /\ UNCHANGED <<tmpFile, draftFiles, pc, storeLocals, procLocals, ev, histVars,
                   changelog, issueRank, clusterRank, moreVars>>

\* Something other than save() writes the state file: a disk fault, an
\* editor, another version of the tool.
Damage(f) ==
    /\ pc = "idle"
    /\ f # stateFile
    /\ stateFile' = f
    /\ UNCHANGED <<tmpFile, draftFiles, pc, storeLocals, procLocals, ev, histVars,
                   sideVars>>

\* save(state), as one step.
SaveState(st) ==
    /\ pc = "idle"
    /\ stateFile # FullFile(st)
    /\ stateFile' = FullFile(st)
    /\ UNCHANGED <<tmpFile, draftFiles, pc, storeLocals, procLocals, ev, histVars,
                   sideVars>>

NextLoad ==
    \/ LoadCall
    \/ \E f \in RawFiles \cup {PartialFile} : Damage(f)
    \/ \E st \in {EmptyState, PutIssue(EmptyState, 1, DraftIssue)} : SaveState(st)

SpecLoad == Init /\ [][NextLoad]_vars

\* The file exists and is not a state that validates.
Unreadable(f) == f.kind \in {"partial", "raw"}

\* C11: load() on a state file that is unparsable or schema-invalid returns
\* an empty state, the canonical file is gone afterwards and the .corrupt
\* sibling holds the original content.
C11_CorruptionSelfHeal ==
    [][(LoadCall /\ Unreadable(stateFile)) =>
          /\ loaded' = "empty"
          /\ stateFile' = NoFile
          /\ corruptFile' = stateFile]_vars

\* C12: load() never ends by an exception because of the content of the
\* state file: it returns a state, and a file it could not read is backed up.
C12_LoadNeverRaises ==
    [][LoadCall =>
          /\ loaded' \in {"empty", "state"}
          /\ Unreadable(stateFile) => corruptFile' = stateFile]_vars

\* ------------------------------------- claims about the pipeline, continued

\* run_resolution(c) in which the agent asks for approval and the human
\* rejects the plan.
RejectedRun == <<"needs_approval", FALSE, "needs_approval">>

\* C13: after needs_approval the agent is invoked a second time only when the
\* plan gate approved; on a rejection it is not invoked again, run_resolution
\* returns failure, the cluster stays approved and its issues keep their
\* status.
C13_PlanGate ==
    [][\A c \in ClusterIds :
         ClusterStatus(Persisted, c) = "approved" =>
            /\ \A r2 \in ResolutionResults, approved \in BOOLEAN :
                  ResolutionResult(c, "needs_approval", approved, r2).calls
                     = IF approved THEN 2 ELSE 1
            /\ ResolutionStep(c, RejectedRun) =>
                  /\ Returned(ResolutionResult(c, RejectedRun[1], RejectedRun[2],
                                               RejectedRun[3]).outcome) = "failure"
                  /\ Persisted' = Persisted]_vars

\* Fast-track recorded "Resolution plan rejected." for an issue: its cluster
\* is still approved and the issue still prioritized.
C13_Witness ==
    \E f \in fast_track_failures :
        /\ f[2] = "rejected"
        /\ StatusOf(Persisted, f[1]) = "prioritized"
        /\ \E c \in UuidIds :
              /\ ClusterStatus(Persisted, c) = "approved"
              /\ f[1] \in Persisted.clusters[c].issue_ids

\* The issues run_resolution(c) works on, line 361.
MemberIssues(st, c) == st.clusters[c].issue_ids \cap DOMAIN st.issues

\* C14: when a resolution by the pipeline succeeds for a cluster, a changelog
\* entry is appended for each of its member issues. (IssueWorkflow calls
\* neither resolve_issue nor _append_changelog: no step of the pipeline
\* writes CHANGELOG.md.)
C14_ResolutionInChangelog ==
    [][\A c \in DOMAIN Persisted.clusters :
         \A run \in ResolutionRuns :
            (/\ stateFile' # stateFile
             /\ ResolutionStep(c, run)
             /\ ClusterStatus(Persisted', c) = "resolved")
            => MemberIssues(Persisted, c) \subseteq changelog']_vars

\* C15: a process() run that starts from imported drafts only, to which
\* triage gives critical and other severities, in which every agent call
\* succeeds and every gate approves, ends with every issue resolved and a
\* changelog entry for each.
C15_EndToEnd ==
    (ProcessReturned /\ scenario) =>
        /\ \A i \in Ids : StatusOf(Persisted, i) = "resolved"
        /\ changelog = Ids

\* ----------------------------------------------------------------- ranking
\* SpecRank: one issue and the cluster it is in, with the fields that rank
\* them. Other issues are there too: the prioritization agent is called and
\* may answer for this issue whatever its status.

Severities == {"critical", "high", "medium", "low"}
Complexities == {"trivial", "small", "medium", "large"}

\* agents.py, lines 89-94: the formula the prioritization agent is given.
SeverityWeight(sev) ==
    CASE sev = "critical" -> 4 [] sev = "high" -> 3 [] sev = "medium" -> 2 [] OTHER -> 1
ComplexityInverse(cx) ==
    CASE cx = "trivial" -> 4 [] cx = "small" -> 3 [] cx = "medium" -> 2 [] OTHER -> 1
\* recency_multiplier, in halves: 1.5 within the last 7 days, else 1.0.
RecencyHalves(recent) == IF recent THEN 3 ELSE 2

RECURSIVE Log2(_)
Log2(n) == IF n <= 1 THEN 0 ELSE 1 + Log2(n \div 2)

\* priority_score = severity * log2(frequency + 1) * complexity_inverse
\* * recency, in halves.
CoreScore(issue) ==
    SeverityWeight(issue.severity) * Log2(issue.frequency + 1)
        * ComplexityInverse(issue.fix_complexity) * RecencyHalves(issue.recent)

\* What an agent's entry may hold as a score, in halves: 0, 9, 18 or 24,
\* or no score (<<>>).
ProposedScores == {<<>>, <<0>>, <<2 * 9>>, <<2 * 18>>, <<2 * 24>>}

\* An entry of the prioritization agent for the issue: each field is there
\* or not.
RankEntries ==
    [severity : Severities \cup {"omit"},
     fix_complexity : {"trivial", "large", "omit"},
     priority_score : ProposedScores]

\* An issue is reported and triaged: Issue(...) with frequency 1, the
\* severity the triage agent gave it (or none).
RankTriage(sev, recent) ==
    /\ pc = "idle"
    /\ issueRank.status = "absent"
    /\ issueRank' = [NoIssueRank EXCEPT !.status = "triaged", !.severity = sev,
                                        !.recent = recent]
    /\ UNCHANGED <<diskVars, pc, storeLocals, procLocals, ev, histVars,
                   corruptFile, loaded, changelog, moreVars, clusterRank>>

\* run_clustering with a cluster for the issue: IssueCluster(...) with the
\* default aggregate_priority 0.0, put in place of a cluster of that id.
RankClustering ==
    /\ pc = "idle"
    /\ issueRank.status = "triaged"
    /\ issueRank' = [issueRank EXCEPT !.status = "clustered"]
    /\ clusterRank' = [status |-> "pending", aggregate_priority |-> 0]
    /\ UNCHANGED <<diskVars, pc, storeLocals, procLocals, ev, histVars,
                   corruptFile, loaded, changelog, moreVars>>

\* _gate_prioritization, the human being asked: `state = load()` is the
\* state of the file, which run_prioritization has not saved yet. The
\* clusters are printed with their aggregate_priority; if there is none, the
\* issues with `priority_score or 0`.
GatePrioritization ==
    IF clusterRank.status # "absent"
    THEN [shown |-> TRUE, priority_score |-> <<>>,
          aggregate_priority |-> <<clusterRank.aggregate_priority>>]
    ELSE [shown |-> TRUE,
          priority_score |-> IF issueRank.priority_score = <<>> THEN <<0>>
                             ELSE issueRank.priority_score,
          aggregate_priority |-> <<>>]

\* run_prioritization, lines 303-337, the gate approving: the fields of the
\* agent's entry for the issue and of its entry for the cluster are stored.
RankPrioritization(entry, agg) ==
    /\ pc = "idle"
    /\ issueRank.status # "absent"
    /\ issueRank' =
          [issueRank EXCEPT
              !.status = "prioritized",
              !.severity = IF entry.severity = "omit" THEN @ ELSE entry.severity,
              !.fix_complexity = IF entry.fix_complexity = "omit" THEN @
                                 ELSE entry.fix_complexity,
              !.priority_score = IF entry.priority_score = <<>> THEN @
                                 ELSE entry.priority_score]
    /\ clusterRank' =
          IF clusterRank.status = "absent" \/ agg = <<>> THEN clusterRank
          ELSE [clusterRank EXCEPT !.aggregate_priority = agg[1]]
    /\ gateShown' = GatePrioritization
    /\ UNCHANGED <<diskVars, pc, storeLocals, procLocals, ev, histVars,
                   corruptFile, loaded, changelog, lateVars, publicFiles, doc, schema_version,
                   draftTitle>>

\* _fast_track_resolve, lines 427-442: a cluster of its own for the critical
\* issue, aggregate_priority 10.0; the issue keeps its score.
RankFastTrack ==
    /\ pc = "idle"
    /\ issueRank.status = "triaged"
    /\ issueRank.severity = "critical"
    /\ issueRank' = [issueRank EXCEPT !.status = "prioritized"]
    /\ clusterRank' = [status |-> "approved", aggregate_priority |-> 2 * 10]
    /\ UNCHANGED <<diskVars, pc, storeLocals, procLocals, ev, histVars,
                   corruptFile, loaded, changelog, moreVars>>

\* defer_issue (s = "deferred") and wontfix_issue (s = "wont_fix"): the
\* status is set, the other fields stay.
RankManual(s) ==
    /\ pc = "idle"
    /\ issueRank.status # "absent"
    /\ issueRank' = [issueRank EXCEPT !.status = s]
    /\ UNCHANGED <<diskVars, pc, storeLocals, procLocals, ev, histVars,
                   corruptFile, loaded, changelog, moreVars, clusterRank>>

NextRank ==
    \/ \E sev \in Severities \cup {"none"}, recent \in BOOLEAN : RankTriage(sev, recent)
    \/ \E s \in {"deferred", "wont_fix"} : RankManual(s)
    \/ RankClustering
    \/ \E entry \in RankEntries, agg \in ProposedScores :
          RankPrioritization(entry, agg)
    \/ RankFastTrack

SpecRank == Init /\ [][NextRank]_vars

\* C16: in every persisted state the aggregate_priority of a cluster is at
\* least the priority_score of each of its member issues.
C16_ClusterAggregate ==
    (clusterRank.status # "absent" /\ issueRank.priority_score # <<>>)
        => clusterRank.aggregate_priority >= issueRank.priority_score[1]

\* C17: the priority_score run_prioritization persists for an issue is the
\* one the formula gives for the issue's own fields, whatever the agent
\* proposes.
C17_CoreScore ==
    [][\A entry \in RankEntries, agg \in ProposedScores :
          (/\ RankPrioritization(entry, agg)
           /\ issueRank'.severity # "none"
           /\ issueRank'.fix_complexity # "none")
          => issueRank'.priority_score = <<CoreScore(issueRank')>>]_vars

\* ------------------------------------- claims about failures in the pipeline

\* Nothing that was persisted is changed by the step.
Kept ==
    /\ \A i \in DOMAIN Persisted.issues :
          i \in DOMAIN Persisted'.issues /\ Persisted'.issues[i] = Persisted.issues[i]
    /\ Persisted'.clusters = Persisted.clusters

\* C18: in process(), when the agent of triage, clustering or prioritization
\* fails, process() returns a non-success result at that stage (no later
\* stage runs) and what was persisted before is still persisted.
C18_AgentFailureHalts ==
    [][/\ (ProcessTriageWith(AgentFailed) /\ TriageResult(AgentFailed).calls = 1)
          => (pc' = "idle" /\ result' = "triage_failed" /\ Kept)
       /\ (ProcessClusteringWith(AgentFailed) /\ ClusteringResult(AgentFailed).calls = 1)
          => (pc' = "idle" /\ result' = "clustering_failed" /\ stateFile' = stateFile)
       /\ \A approved \in BOOLEAN :
             (/\ ProcessPrioritizationWith(AgentFailed, approved)
              /\ PrioritizationResult(AgentFailed, approved).calls = 1)
             => (pc' = "idle" /\ result' = "prioritization_failed"
                 /\ stateFile' = stateFile)]_vars

\* process() returned "Clustering agent failed." and the issue its triage
\* stage saved is still triaged.
C18_Witness ==
    /\ pc = "idle"
    /\ result = "clustering_failed"
    /\ \E i \in Ids : StatusOf(Persisted, i) = "triaged"

\* C19: when a resolution in the last stage of process() does not succeed
\* (the agent fails or the plan is rejected), process() does not return
\* success.
C19_FailedResolutionFails ==
    [][\A c \in ClusterIds, run \in ResolutionRuns :
          (/\ ProcessResolveWith(c, run)
           /\ ResolutionResult(c, run[1], run[2], run[3]).outcome \in {"fail", "rejected"})
          => result' # "complete"]_vars

\* C20: output of an agent that the merge cannot read never makes
\* run_triage, run_clustering or run_prioritization raise: they return a
\* WorkflowResult, and so does process().
C20_MalformedNeverRaises ==
    [][/\ result' # "raised"
       /\ (RunTriageWith(AgentMalformed) \/ ProcessTriageWith(AgentMalformed))
          => TriageResult(AgentMalformed).outcome # "raised"
       /\ (RunClusteringWith(AgentMalformed) \/ ProcessClusteringWith(AgentMalformed))
          => ClusteringResult(AgentMalformed).outcome # "raised"
       /\ (RunPrioritizationWith(AgentMalformed, TRUE)
              \/ ProcessPrioritizationWith(AgentMalformed, TRUE))
          => PrioritizationResult(AgentMalformed, TRUE).outcome # "raised"]_vars

\* ---------------------------------------------------------------------
\* What a stage leaves alone
\* ---------------------------------------------------------------------

\* The issues that the agent's output does not name are persisted as they
\* were.
UnreturnedKept(out) ==
    \A i \in (DOMAIN Persisted.issues) \ (DOMAIN out.issues) :
        i \in DOMAIN Persisted'.issues /\ Persisted'.issues[i] = Persisted.issues[i]

\* C21: when the agent of triage, clustering or prioritization fails or gives
\* no parsable output, the stage returns a failure and every issue and
\* cluster persisted before is persisted unchanged; when the agent answers,
\* every issue whose id is not in its output keeps its status and its fields.
C21_StageFrame ==
    [][/\ ((RunTriageWith(AgentFailed) \/ ProcessTriageWith(AgentFailed))
           /\ TriageResult(AgentFailed).calls = 1)
          => (Kept /\ Returned(TriageResult(AgentFailed).outcome) = "failure")
       /\ ((RunClusteringWith(AgentFailed) \/ ProcessClusteringWith(AgentFailed))
           /\ ClusteringResult(AgentFailed).calls = 1)
          => (Kept /\ Returned(ClusteringResult(AgentFailed).outcome) = "failure")
       /\ \A approved \in BOOLEAN :
            ((RunPrioritizationWith(AgentFailed, approved)
               \/ ProcessPrioritizationWith(AgentFailed, approved))
             /\ PrioritizationResult(AgentFailed, approved).calls = 1)
            => (Kept /\ Returned(PrioritizationResult(AgentFailed, approved).outcome)
                          = "failure")
       /\ (stateFile' # stateFile) =>
            /\ \A out \in {o \in TriageOutputs : o.kind = "data"} :
                 (RunTriageWith(out) \/ ProcessTriageWith(out)) => UnreturnedKept(out)
            /\ \A out \in {o \in ClusteringOutputs : o.kind = "data"} :
                 (RunClusteringWith(out) \/ ProcessClusteringWith(out))
                 => UnreturnedKept(out)
            /\ \A out \in {o \in PrioritizationOutputs : o.kind = "data"},
                  approved \in BOOLEAN :
                 (RunPrioritizationWith(out, approved)
                  \/ ProcessPrioritizationWith(out, approved))
                 => UnreturnedKept(out)]_vars

\* process() returned "Triage agent failed." while an issue triaged by an
\* earlier run is still triaged.
C21_Witness ==
    /\ pc = "idle"
    /\ result = "triage_failed"
    /\ \E i \in Ids : StatusOf(Persisted, i) = "triaged"

\* ---------------------------------------------------------------------
\* The public directory and the commands on one issue or cluster
\* (specification SpecCommands)
\* ---------------------------------------------------------------------

\* datetime.isoformat(): a string made from the date.
IsoFormat(d) == <<"iso", d>>

\* Mutant of PublicData: the context is written too.
PublicDataWithContext(issue) ==
    [id |-> issue.id, title |-> issue.title,
     description |-> issue.description, category |-> issue.category,
     tags |-> issue.tags, affected_files |-> issue.affected_files,
     severity |-> IF issue.severity = "none" THEN "unknown" ELSE issue.severity,
     frequency |-> issue.frequency, created |-> IsoFormat(issue.created),
     context |-> issue.context]

\* publish_issue: public_data, the JSON object written to issue_<id>.json.
PublicData(issue) ==
    [id |-> issue.id, title |-> issue.title,
     description |-> issue.description, category |-> issue.category,
     tags |-> issue.tags, affected_files |-> issue.affected_files,
     severity |-> IF issue.severity = "none" THEN "unknown" ELSE issue.severity,
     frequency |-> issue.frequency, created |-> IsoFormat(issue.created)]

\* The Issue object of issue i of the state; the pipeline's model of the
\* state keeps its status and severity, the other fields have their defaults.
IssueOf(st, i) ==
    [NoDoc EXCEPT !.id = i, !.status = st.issues[i].status,
                  !.severity = st.issues[i].severity]

\* publish_issue(state.issues[i]): a draft raises ValueError.
PublishIssue(i) ==
    /\ pc = "idle"
    /\ i \in DOMAIN Persisted.issues
    /\ publicFiles' = IF StatusOf(Persisted, i) = "draft" THEN publicFiles
                      ELSE [publicFiles EXCEPT ![i] = PublicData(IssueOf(Persisted, i))]
    /\ UNCHANGED <<diskVars, pc, storeLocals, procLocals, ev, histVars, corruptFile,
                   loaded, changelog, issueRank, clusterRank, lateVars, doc, gateShown,
                   schema_version, draftTitle>>

\* Mutant of ResolveIssueResult: an unknown id gets its changelog entry.
ResolveIssueResultAnyId(i) ==
    LET st == Load(stateFile) IN
    [file |-> IF i \in DOMAIN st.issues THEN FullFile(SetStatus(st, i, "resolved"))
              ELSE stateFile,
     changelog |-> changelog \cup {i},
     public |-> [publicFiles EXCEPT ![i] = NoPublicFile],
     outcome |-> IF i \in DOMAIN st.issues THEN "ok" ELSE "raised"]

\* resolve_issue(i, notes, resolved_by): ValueError for an id that is not in
\* the state; else the issue is resolved and saved, the changelog gets its
\* entry and the public file is unlinked.
ResolveIssueResult(i) ==
    LET st == Load(stateFile) IN
    IF i \in DOMAIN st.issues
    THEN [file |-> FullFile(SetStatus(st, i, "resolved")),
          changelog |-> changelog \cup {i},
          public |-> [publicFiles EXCEPT ![i] = NoPublicFile],
          outcome |-> "ok"]
    ELSE [file |-> stateFile, changelog |-> changelog, public |-> publicFiles,
          outcome |-> "raised"]

ResolveIssue(i) ==
    /\ pc = "idle"
    /\ LET r == ResolveIssueResult(i) IN
        /\ stateFile' = r.file
        /\ changelog' = r.changelog
        /\ publicFiles' = r.public
        /\ ev' = Event("resolve_issue", i, r.outcome)
    /\ UNCHANGED <<tmpFile, draftFiles, pc, storeLocals, procLocals, histVars,
                   corruptFile, loaded, issueRank, clusterRank, lateVars, doc, gateShown,
                   schema_version, draftTitle>>

\* The stages that bring issues and a cluster into the state: the triage
\* agent answers for some issues, the clustering agent puts those it names
\* into one cluster.
CommandOutputs == {AgentData(f, <<>>) : f \in PlainEntries}
CommandClusterings ==
    {AgentData(f, <<[named |-> TRUE, id |-> n, issue_ids |-> DOMAIN f]>>) :
        f \in PlainEntries, n \in NamedIds}

NextCommands ==
    \/ \E i \in Ids : ReportDraft(i)
    \/ \E out \in CommandOutputs : RunTriageWith(out)
    \/ \E out \in CommandClusterings : RunClusteringWith(out)
    \/ \E c \in ClusterIds : ApproveCluster(c)
    \/ \E c \in ClusterIds : RunResolution(c)
    \/ \E i \in Ids : DeferIssue(i)
    \/ \E i \in Ids : WontfixIssue(i)
    \/ \E i \in Ids : ResolveIssue(i)
    \/ \E i \in Ids : PublishIssue(i)

SpecCommands == Init /\ [][NextCommands]_vars

\* The state file, the changelog and the public files are what they were.
NothingWritten ==
    /\ stateFile' = stateFile
    /\ changelog' = changelog
    /\ publicFiles' = publicFiles

\* C22: defer_issue, wontfix_issue and resolve_issue with an issue id that
\* is not in the state, approve_cluster and run_resolution with a cluster id
\* that is not in the state, end in a failure (a failed result, or an
\* exception for resolve_issue) and write nothing: the state file, the
\* changelog and the public files are unchanged.
C22_UnknownIdRefused ==
    [][/\ \A i \in Ids \ DOMAIN Persisted.issues :
            /\ DeferIssue(i)
               => (ManualResult(i, "deferred").outcome = "not_found" /\ NothingWritten)
            /\ WontfixIssue(i)
               => (ManualResult(i, "wont_fix").outcome = "not_found" /\ NothingWritten)
            /\ ResolveIssue(i)
               => (ResolveIssueResult(i).outcome = "raised" /\ NothingWritten)
       /\ \A c \in ClusterIds \ DOMAIN Persisted.clusters :
            /\ ApproveCluster(c)
               => (ApproveResult(c).outcome = "not_found" /\ NothingWritten)
            /\ \A run \in ResolutionRuns :
                 RunResolutionWith(c, run)
                 => (/\ Returned(ResolutionResult(c, run[1], run[2], run[3]).outcome)
                          = "failure"
                     /\ NothingWritten)]_vars

\* resolve_issue raised for an id that is not in the state while the
\* changelog has an entry and another issue has its public file.
C22_Witness ==
    /\ \E i \in Ids \ DOMAIN Persisted.issues : ev = Event("resolve_issue", i, "raised")
    /\ changelog # {}
    /\ \E j \in Ids : publicFiles[j] # NoPublicFile

\* ---------------------------------------------------------------------
\* The texts of one issue: import, triage, publication, migration
\* (specification SpecContent)
\* ---------------------------------------------------------------------

CURRENT_VERSION == 2

\* Titles and descriptions: what the reporter wrote and what agents return.
Texts == {"raw", "clean", "clean2"}

\* The context dict of a draft: whatever the reporter attached.
DraftContexts == {[NoContext EXCEPT !.session = x] : x \in {"none", "secret"}}
AllContexts ==
    [raw_title : Texts \cup {"none", "old"}, raw_description : Texts \cup {"none"},
     session : {"none", "secret"}]

\* The severity field of a draft file: save_draft (the workflow's reporter)
\* writes none, save_draft_issue writes the severity it was given.
DraftSeverities == {"none", "critical"}

\* import_draft: Issue(id, title, description, category, context, status
\* draft, created) from the draft's data; the other fields have their
\* defaults, whatever the data says (the severity key `sev` is not read).
ImportedDraft(t, d, ctx, sev) ==
    [NoDoc EXCEPT !.id = 1, !.status = "draft", !.title = t, !.description = d,
                  !.context = ctx, !.created = 1]

\* import_draft of a draft file {title: t, description: d, context: ctx,
\* severity: sev}.
ContentImport(t, d, ctx, sev) ==
    /\ doc.status = "absent"
    /\ doc' = ImportedDraft(t, d, ctx, sev)
    /\ draftTitle' = t
    /\ passedTriage' = FALSE
    /\ UNCHANGED <<diskVars, pc, storeLocals, procLocals, ev, histVars, corruptFile,
                   loaded, changelog, issueRank, clusterRank, changelogText, today,
                   lastRun, publicFiles, gateShown, schema_version>>

\* An entry of the triage agent's list for this issue: a key is there or
\* not ("omit"); class: affected_files, tags and severity, given together.
TriageDocEntries ==
    [title : {"omit", "clean", "clean2"}, description : {"omit", "clean"},
     class : {"omit", "given"}]
MaxEntries == 2
TriageDocOutputs == UNION {[1..n -> TriageDocEntries] : n \in 1..MaxEntries}

\* run_triage, the body of the merge loop for one entry.
DocTriage(issue, entry) ==
    LET t == entry.title # "omit" /\ entry.title # issue.title
        d == entry.description # "omit" /\ entry.description # issue.description
        g == entry.class = "given"
    IN  [issue EXCEPT
           !.context = [issue.context EXCEPT
                          !.raw_title = IF t THEN issue.title ELSE @,
                          !.raw_description = IF d THEN issue.description ELSE @],
           !.title = IF t THEN entry.title ELSE @,
           !.description = IF d THEN entry.description ELSE @,
           !.affected_files = IF g THEN <<"workflow.py">> ELSE @,
           !.tags = IF g THEN <<"ui">> ELSE @,
           !.severity = IF g THEN "high" ELSE @,
           !.status = "triaged"]

\* run_triage, the merge loop over the entries of the list.
RECURSIVE DocTriageAll(_, _)
DocTriageAll(issue, entries) ==
    IF entries = <<>> THEN issue
    ELSE DocTriageAll(DocTriage(issue, Head(entries)), Tail(entries))

\* run_triage whose agent returns `entries` for this issue; the merge takes
\* every id that is in the state, whatever the status of the issue.
ContentTriage(entries) ==
    /\ doc.status # "absent"
    /\ doc' = DocTriageAll(doc, entries)
    /\ passedTriage' = TRUE
    /\ UNCHANGED <<diskVars, pc, storeLocals, procLocals, ev, histVars, corruptFile,
                   loaded, changelog, issueRank, clusterRank, changelogText, today,
                   lastRun, publicFiles, gateShown, schema_version, draftTitle>>

\* defer_issue / wontfix_issue: the status is set whatever it was.
ContentManual(s) ==
    /\ doc.status # "absent"
    /\ doc' = [doc EXCEPT !.status = s]
    /\ UNCHANGED <<diskVars, pc, storeLocals, procLocals, ev, histVars, corruptFile,
                   loaded, changelog, issueRank, clusterRank, lateVars, publicFiles,
                   gateShown, schema_version, draftTitle>>

\* publish_issue(issue): ValueError for a draft.
ContentPublish ==
    /\ doc.status # "absent"
    /\ publicFiles' = IF doc.status = "draft" THEN publicFiles
                      ELSE [publicFiles EXCEPT ![doc.id] = PublicData(doc)]
    /\ UNCHANGED <<diskVars, pc, storeLocals, procLocals, ev, histVars, corruptFile,
                   loaded, changelog, issueRank, clusterRank, lateVars, doc, gateShown,
                   schema_version, draftTitle>>

\* The issue objects of a state file written by any version of the schema:
\* the sanitized_* fields of version 1 are there or not.
RawIssueData ==
    [title : {"raw", "clean"}, sanitized_title : {"none", "clean"},
     description : {"raw"}, sanitized_description : {"none", "clean"},
     status : {"draft", "triaged"},
     context : {NoContext, [NoContext EXCEPT !.raw_title = "old"]}]

\* The files: schema_version (0: the key is missing) and the issue.
RawStates == [schema_version : 0..CURRENT_VERSION, issue : RawIssueData]

\* Mutant of MigrateIssue: the sanitized texts replace the texts and the
\* originals are not kept.
MigrateIssueDropsRaw(d) ==
    [d EXCEPT
       !.title = IF d.sanitized_title # "none" THEN d.sanitized_title ELSE @,
       !.description = IF d.sanitized_description # "none"
                       THEN d.sanitized_description ELSE @,
       !.sanitized_title = "none",
       !.sanitized_description = "none"]

\* _migrate, the body of the loop over the issues (v1 -> v2).
MigrateIssue(d) ==
    LET st == d.sanitized_title # "none"
        sd == d.sanitized_description # "none"
    IN  [d EXCEPT
           !.context = [d.context EXCEPT
                          !.raw_title = IF st /\ d.title # d.sanitized_title
                                        THEN d.title ELSE @,
                          !.raw_description =
                              IF sd /\ d.description # d.sanitized_description
                              THEN d.description ELSE @],
           !.title = IF st THEN d.sanitized_title ELSE @,
           !.description = IF sd THEN d.sanitized_description ELSE @,
           !.sanitized_title = "none",
           !.sanitized_description = "none"]

\* _migrate(data, from_version)
Migrate(data, from_version) ==
    [schema_version |-> CURRENT_VERSION,
     issue |-> IF from_version < 2 THEN MigrateIssue(data.issue) ELSE data.issue]

\* load(), lines 43-47: the data after the migration, if any.
LoadData(data) ==
    IF data.schema_version < CURRENT_VERSION THEN Migrate(data, data.schema_version)
    ELSE data

\* IssueState.model_validate(data): the Issue of the issue object.
Validate(d) ==
    [NoDoc EXCEPT !.id = 1, !.status = d.status, !.title = d.title,
                  !.description = d.description,
                  !.sanitized_title = d.sanitized_title,
                  !.sanitized_description = d.sanitized_description,
                  !.context = d.context, !.created = 1]

\* load() of a state file that holds `data`.
ContentLoad(data) ==
    /\ doc.status = "absent"
    /\ doc' = Validate(LoadData(data).issue)
    /\ schema_version' = LoadData(data).schema_version
    /\ draftTitle' = "none"
    /\ passedTriage' = (data.issue.status = "triaged")
    /\ UNCHANGED <<diskVars, pc, storeLocals, procLocals, ev, histVars, corruptFile,
                   loaded, changelog, issueRank, clusterRank, changelogText, today,
                   lastRun, publicFiles, gateShown>>

NextContent ==
    \/ \E t \in {"raw", "clean"}, ctx \in DraftContexts, sev \in DraftSeverities :
          ContentImport(t, "raw", ctx, sev)
    \/ \E entries \in TriageDocOutputs : ContentTriage(entries)
    \/ ContentPublish
    \/ \E s \in {"deferred", "wont_fix"} : ContentManual(s)
    \/ \E data \in RawStates : ContentLoad(data)

SpecContent == Init /\ [][NextContent]_vars

\* C23: the file publish_issue writes holds exactly id, title, description,
\* category, tags, affected_files, severity, frequency and created, and is
\* the same for every context the issue could have: two issues that differ
\* in context only are published as the same content.
C23_PublicWithoutContext ==
    [][(ContentPublish /\ doc.status # "draft") =>
          /\ DOMAIN publicFiles'[doc.id]
             = {"id", "title", "description", "category", "tags", "affected_files",
                "severity", "frequency", "created"}
          /\ \A ctx \in AllContexts :
                PublicData([doc EXCEPT !.context = ctx]) = publicFiles'[doc.id]]_vars

\* A triaged issue whose context holds a session and a raw title has its
\* public file.
C23_Witness ==
    /\ doc.status = "triaged"
    /\ doc.context.session = "secret"
    /\ doc.context.raw_title = "raw"
    /\ publicFiles[doc.id] = PublicData(doc)

\* C25: a title is replaced only in the step in which the issue leaves
\* draft, and the text before sanitization is retained: after any sequence
\* of triage runs, an issue whose title differs from the one it had as a
\* draft has that draft title in context.raw_title.
C25_RawTitleRetained ==
    [][/\ (doc.status # "absent" /\ doc'.title # doc.title) => doc.status = "draft"
       /\ (draftTitle' # "none" /\ doc'.title # draftTitle')
          => doc'.context.raw_title = draftTitle']_vars

\* C27: load() of a file whose schema_version is older than the current one
\* returns a state with the current version in which every issue that had a
\* non-empty sanitized_title (sanitized_description) has it as its title
\* (description) and, when the original differed, has the original in
\* context.raw_title (raw_description); migrating migrated data again
\* changes nothing.
C27_MigrationOnLoad ==
    [][\A data \in RawStates :
          (data.schema_version < CURRENT_VERSION /\ ContentLoad(data)) =>
             LET o == data.issue
                 m == Migrate(data, data.schema_version)
             IN  /\ schema_version' = CURRENT_VERSION
                 /\ o.sanitized_title # "none" =>
                       /\ doc'.title = o.sanitized_title
                       /\ o.title # o.sanitized_title => doc'.context.raw_title = o.title
                 /\ o.sanitized_description # "none" =>
                       /\ doc'.description = o.sanitized_description
                       /\ o.description # o.sanitized_description
                          => doc'.context.raw_description = o.description
                 /\ \A v \in 0..(CURRENT_VERSION - 1) : Migrate(m, v) = m]_vars

\* A version 1 file was loaded: the state has the current version, the
\* issue has the sanitized title and its context the original one.
C27_Witness ==
    /\ schema_version = CURRENT_VERSION
    /\ draftTitle = "none"
    /\ doc.status = "draft"
    /\ doc.title = "clean"
    /\ doc.context.raw_title = "raw"
    /\ doc.context.raw_description = "raw"

\* ---------------------------------------------------------------------
\* Scores and statuses (specification SpecRank)
\* ---------------------------------------------------------------------

\* C24: in every persisted state an issue that has a priority_score has
\* status prioritized or resolved.
C24_ScoredIsPrioritized ==
    issueRank.priority_score # <<>> => issueRank.status \in {"prioritized", "resolved"}

\* C29: what the prioritization gate shows is what the run computed: the
\* aggregate_priority and the priority_score it prints are those the
\* approval persists.
C29_GateShowsThisRun ==
    [][\A entry \in RankEntries, agg \in ProposedScores :
          RankPrioritization(entry, agg) =>
             /\ gateShown'.aggregate_priority # <<>>
                => gateShown'.aggregate_priority[1] = clusterRank'.aggregate_priority
             /\ gateShown'.priority_score # <<>>
                => gateShown'.priority_score
                     = (IF issueRank'.priority_score = <<>> THEN <<0>>
                        ELSE issueRank'.priority_score)]_vars

\* ---------------------------------------------------------------------
\* Clusters and the fast track (specification Spec)
\* ---------------------------------------------------------------------

\* C26: in every persisted state every id in a cluster's issue_ids is the id
\* of an issue of that state, whatever cluster definitions the clustering
\* agent returns.
C26_ClusterMembersExist ==
    \A c \in DOMAIN Persisted.clusters :
        Persisted.clusters[c].issue_ids \subseteq DOMAIN Persisted.issues

\* run_clustering, lines 196 and 206-210: the ids of the issues sent to the
\* clustering agent.
ClusteringInput(st) == IssuesWith(st, {"triaged"})

\* run_prioritization, lines 269-290: the ids in what is sent to the
\* prioritization agent: the issues to prioritize and, in the dump of every
\* cluster of the state, its issue_ids.
PrioritizationInput(st) ==
    IssuesWith(st, {"triaged", "clustered"})
    \cup UNION {st.clusters[c].issue_ids : c \in DOMAIN st.clusters}

\* C28: an issue that process() fast-tracks gets a singleton cluster that
\* is approved and goes from triaged to prioritized (and to resolved); in
\* that run it never has status clustered and is not in what is sent to the
\* clustering agent or to the prioritization agent.
C28_FastTrackBypass ==
    [][/\ \A i \in Ids :
            ProcessFastTrackSave(i) =>
               /\ StatusOf(Persisted, i) = "triaged"
               /\ StatusOf(Persisted', i) = "prioritized"
               /\ Persisted'.clusters[ftCluster']
                    = [status |-> "approved", issue_ids |-> {i}]
       /\ \A i \in critical_issues' : StatusOf(Persisted', i) # "clustered"
       /\ (pc = "cluster" /\ ClusteringInput(Persisted) # {})
          => critical_issues \cap ClusteringInput(Persisted) = {}
       /\ (pc = "prioritize" /\ IssuesWith(Persisted, {"triaged", "clustered"}) # {})
          => critical_issues \cap PrioritizationInput(Persisted) = {}]_vars

\* C30: a stage saves once or not at all. When the agent of triage,
\* clustering or prioritization fails, what was persisted stays; when the
\* fast-track resolution of an issue ends in a crash or a failure, the
\* persisted state is the one before it (the issue triaged) or the one
\* after it (the issue resolved), not one between the two.
C30_StageAllOrNothing ==
    [][/\ (ProcessTriageWith(AgentFailed) /\ TriageResult(AgentFailed).calls = 1)
          => Kept
       /\ (ProcessClusteringWith(AgentFailed) \/ RunClusteringWith(AgentFailed))
          => stateFile' = stateFile
       /\ \A approved \in BOOLEAN :
             (ProcessPrioritizationWith(AgentFailed, approved)
              \/ RunPrioritizationWith(AgentFailed, approved))
             => stateFile' = stateFile
       /\ (pc = "ft_resolve" /\ pc' # "ft_resolve" /\ stateFile' = stateFile)
          => StatusOf(Persisted', cur) \in {"triaged", "resolved"}]_vars

\* ---------------------------------------------------------------------
\* CHANGELOG.md (specification SpecChangelog)
\* ---------------------------------------------------------------------

MaxDay == 3
MaxBullets == 4
Days == 1..MaxDay
Notes == {"fixed", "duplicate"}

\* The lines of the file, each with its newline.
TitleLine == [kind |-> "title"]
BlankLine == [kind |-> "blank"]
SectionLine(d) == [kind |-> "section", day |-> d]
BulletLine(i, n) == [kind |-> "bullet", id |-> i, notes |-> n]

\* `f"## {today}" in content`
HasSection(text, d) == \E k \in 1..Len(text) : text[k] = SectionLine(d)

\* content.split(f"## {today}\n", 1): where the first such line is.
FirstSection(text, d) ==
    CHOOSE k \in 1..Len(text) :
        /\ text[k] = SectionLine(d)
        /\ \A j \in 1..(k - 1) : text[j] # SectionLine(d)

\* Mutant of AppendChangelogText: a section is opened at every call.
AppendChangelogTextNewSection(text, d, i, n) ==
    IF text = <<>>
    THEN <<TitleLine, BlankLine, SectionLine(d), BulletLine(i, n)>>
    ELSE <<text[1], BlankLine, SectionLine(d), BulletLine(i, n), BlankLine>>
         \o SubSeq(text, 3, Len(text))

\* _append_changelog: the content written, from the content read (<<>>: the
\* file is not there), the day and the entry.
AppendChangelogText(text, d, i, n) ==
    IF text = <<>>
    THEN <<TitleLine, BlankLine, SectionLine(d), BulletLine(i, n)>>
    ELSE IF HasSection(text, d)
    THEN LET k == FirstSection(text, d)
         IN  SubSeq(text, 1, k) \o <<BulletLine(i, n)>> \o SubSeq(text, k + 1, Len(text))
    ELSE \* lines = content.split("\n", 2): the second line is dropped
         <<text[1], BlankLine, SectionLine(d), BulletLine(i, n), BlankLine>>
         \o SubSeq(text, 3, Len(text))

\* The bullets of the file.
Bullets(text) == SelectSeq(text, LAMBDA l : l.kind = "bullet")

\* _append_changelog(issue, notes), as resolve_issue calls it.
AppendChangelog(i, n) ==
    /\ Len(Bullets(changelogText)) < MaxBullets
    /\ changelogText' = AppendChangelogText(changelogText, today, i, n)
    /\ UNCHANGED <<diskVars, pc, storeLocals, procLocals, ev, histVars, corruptFile,
                   loaded, changelog, issueRank, clusterRank, publicFiles, doc,
                   gateShown, schema_version, draftTitle, today, lastRun, passedTriage>>

\* Midnight passes.
NextDay ==
    /\ today < MaxDay
    /\ today' = today + 1
    /\ UNCHANGED <<diskVars, pc, storeLocals, procLocals, ev, histVars, corruptFile,
                   loaded, changelog, issueRank, clusterRank, publicFiles, doc,
                   gateShown, schema_version, draftTitle, changelogText, lastRun,
                   passedTriage>>

NextChangelog ==
    \/ \E i \in Ids, n \in Notes : AppendChangelog(i, n)
    \/ NextDay

SpecChangelog == Init /\ [][NextChangelog]_vars

\* The bullets under the section of day d, in the order of the file: those
\* from position k on, `sec` being the day of the section position k is in.
RECURSIVE BulletsFrom(_, _, _, _)
BulletsFrom(text, k, sec, d) ==
    IF k > Len(text) THEN <<>>
    ELSE IF text[k].kind = "section" THEN BulletsFrom(text, k + 1, text[k].day, d)
    ELSE IF text[k].kind = "bullet" /\ sec = d
         THEN <<text[k]>> \o BulletsFrom(text, k + 1, sec, d)
    ELSE BulletsFrom(text, k + 1, sec, d)
BulletsOfDay(text, d) == BulletsFrom(text, 1, 0, d)

\* s with its element at position p taken out.
Without(s, p) == SubSeq(s, 1, p - 1) \o SubSeq(s, p + 1, Len(s))

\* C31: the changelog is append-only and grouped by date: after a call of
\* _append_changelog it has at most one section per day, the section of the
\* current day has one bullet more (the issue id and the notes of the call),
\* and the bullets of every other day are the ones it had.
C31_ChangelogGrouped ==
    [][\A i \in Ids, n \in Notes :
          AppendChangelog(i, n) =>
             /\ \A d \in Days :
                   Cardinality({k \in 1..Len(changelogText') :
                                   changelogText'[k] = SectionLine(d)}) <= 1
             /\ \E p \in 1..Len(BulletsOfDay(changelogText', today)) :
                   /\ BulletsOfDay(changelogText', today)[p] = BulletLine(i, n)
                   /\ Without(BulletsOfDay(changelogText', today), p)
                        = BulletsOfDay(changelogText, today)
             /\ \A d \in Days \ {today} :
                   BulletsOfDay(changelogText', d) = BulletsOfDay(changelogText, d)
             /\ Len(Bullets(changelogText')) = Len(Bullets(changelogText)) + 1]_vars

\* The file has the sections of two days, the later one with two bullets.
C31_Witness ==
    /\ HasSection(changelogText, 1)
    /\ HasSection(changelogText, 2)
    /\ Len(BulletsOfDay(changelogText, 1)) = 1
    /\ Len(BulletsOfDay(changelogText, 2)) = 2

\* ---------------------------------------------------------------------
\* ClaudeCodeRunner.run (specification SpecRunner)
\* ---------------------------------------------------------------------

MaxEvents == 2

\* The value under "result" of an event: the key is absent, or it is an
\* empty string, a JSON text, a text with JSON in a code fence, any other
\* text, or a value that is not a string (an object, a number other than 0).
OutputKinds == {"absent", "empty", "json", "fenced_json", "text", "not_string"}

\* The items of the event list the CLI prints: objects, and anything else.
EventObjects == [kind : {"object"}, type : {"result", "other"}, result : OutputKinds,
                 is_error : BOOLEAN]
NonObject == [kind |-> "non_object"]
EventItems == EventObjects \cup {NonObject}

\* What subprocess.run gives: the CLI is not found, it times out, it exits
\* with a code other than 0, or it exits with 0 and its stdout is not JSON,
\* a JSON scalar or null, a JSON object, or a JSON list.
ProcOutcomes ==
    {[kind |-> k] : k \in {"not_found", "timeout", "nonzero_exit", "not_json", "scalar"}}
    \cup {[kind |-> "dict", event |-> e] : e \in EventObjects}
    \cup {[kind |-> "list", items |-> s] :
             s \in UNION {[1..n -> EventItems] : n \in 0..MaxEvents}}

Failed == [kind |-> "result", success |-> FALSE, error |-> TRUE, parsed |-> FALSE]
Raised(exc) == [kind |-> "raised", exc |-> exc]

\* next((item for item in data if item.get("type") == "result"), None): the
\* items are looked at in order up to the first result event.
RECURSIVE FindResultEvent(_)
FindResultEvent(items) ==
    IF items = <<>> THEN [kind |-> "none"]
    ELSE IF Head(items).kind = "non_object" THEN Raised("AttributeError")
    ELSE IF Head(items).type = "result" THEN Head(items)
    ELSE FindResultEvent(Tail(items))

\* Lines 170-199: the output is parsed if it is not empty.
ParseOutput(output) ==
    IF output \in {"absent", "empty"}
    THEN [kind |-> "result", success |-> TRUE, error |-> FALSE, parsed |-> FALSE]
    ELSE IF output = "not_string" THEN Raised("TypeError")
    ELSE [kind |-> "result", success |-> TRUE, error |-> FALSE,
          parsed |-> output \in {"json", "fenced_json"}]

\* run(prompt, ...): the RunResult returned, or the exception that leaves it.
RunOutcome(proc) ==
    IF proc.kind \in {"not_found", "timeout", "nonzero_exit", "not_json"} THEN Failed
    ELSE IF proc.kind = "scalar" THEN Raised("AttributeError")
    ELSE IF proc.kind = "dict" THEN ParseOutput(proc.event.result)
    ELSE LET ev0 == FindResultEvent(proc.items) IN
         IF ev0.kind = "raised" THEN ev0
         ELSE IF ev0.kind = "none" THEN Failed
         ELSE IF ev0.is_error THEN Failed
         ELSE ParseOutput(ev0.result)

RunnerCall(proc) ==
    /\ lastRun' = [proc |-> proc, result |-> RunOutcome(proc)]
    /\ UNCHANGED <<diskVars, pc, storeLocals, procLocals, ev, histVars, corruptFile,
                   loaded, changelog, issueRank, clusterRank, publicFiles, doc,
                   gateShown, schema_version, draftTitle, changelogText, today,
                   passedTriage>>

NextRunner == \E proc \in ProcOutcomes : RunnerCall(proc)

SpecRunner == Init /\ [][NextRunner]_vars

\* The list holds objects only and none of them is a result event.
NoResultEvent(proc) ==
    /\ proc.kind = "list"
    /\ \A k \in 1..Len(proc.items) :
          proc.items[k].kind = "object" /\ proc.items[k].type # "result"

\* The first result event of the list says is_error.
ErrorResult(proc) ==
    /\ proc.kind = "list"
    /\ \E k \in 1..Len(proc.items) :
          /\ proc.items[k].kind = "object"
          /\ proc.items[k].type = "result"
          /\ proc.items[k].is_error
          /\ \A j \in 1..(k - 1) :
                proc.items[j].kind = "object" /\ proc.items[j].type # "result"

\* C32: run never raises: whatever the subprocess does, a RunResult is
\* returned; it has success = false and an error when the CLI is not found,
\* times out, exits with a non-zero code, prints something that is not JSON,
\* prints an event list without a result event, or an is_error result.
C32_RunNeverRaises ==
    [][\A proc \in ProcOutcomes :
          RunnerCall(proc) =>
             /\ lastRun'.result.kind = "result"
             /\ (\/ proc.kind \in {"not_found", "timeout", "nonzero_exit", "not_json"}
                 \/ NoResultEvent(proc)
                 \/ ErrorResult(proc))
                => lastRun'.result = Failed]_vars

\* ---------------------------------------------------------------------
\* The intake beside a reporter, and save (specification SpecStore)
\* ---------------------------------------------------------------------

\* C33: with a reporter writing draft files while import_all_drafts runs, no
\* draft is lost: a draft file is deleted only when its issue is in the
\* persisted state, an issue is committed only from a file that is written
\* completely, a completely written draft is a file or an issue of the state
\* and is imported at most once.
C33_ConcurrentReporter ==
    [][\A i \in Ids :
          /\ (draftFiles[i] # "none" /\ draftFiles'[i] = "none")
             => i \in DOMAIN Persisted'.issues
          /\ (i \notin DOMAIN Persisted.issues /\ i \in DOMAIN Persisted'.issues)
             => draftFiles[i] = "full"
          /\ i \in reported'
             => (draftFiles'[i] = "full" \/ i \in DOMAIN Persisted'.issues)
          /\ importCount'[i] <= 1]_vars

\* import_all_drafts is in its loop, has imported a draft, and the reporter
\* is writing another file.
C33_Witness ==
    /\ pc = "ia_loop"
    /\ imported # {}
    /\ \E j \in Ids : draftFiles[j] = "partial"

\* C34: after save() returns, the temporary file does not exist and the
\* canonical file holds the saved state.
C34_SaveLeavesNoTmp ==
    [][SaveRename => (tmpFile' = NoFile /\ stateFile' = FullFile(mem))]_vars

\* save() has returned after saving a state with an issue.
C34_Witness ==
    /\ ev = Event("save_rename", 0, "ok")
    /\ tmpFile = NoFile
    /\ stateFile = FullFile(mem)
    /\ DOMAIN mem.issues # {}

\* C39: a draft file that cannot be read as a draft does not block the
\* intake: import_all_drafts does not raise on it and, when it returns, has
\* imported every well-formed draft it listed.
C39_MalformedDraftSkipped ==
    [][(pc \in {"ia_loop", "id_unlink"} /\ pc' = "idle" /\ ev'.op # "crash")
          => /\ ev'.outcome # "raised"
             /\ \A j \in todo : draftFiles'[j] # "full"]_vars

\* ---------------------------------------------------------------------
\* New clusters, and one resolution per run (specification Spec)
\* ---------------------------------------------------------------------

\* C35: run_clustering makes one new cluster for each definition the agent
\* returns: no cluster that was in the state is replaced and the number of
\* clusters grows by the number of definitions (the reported count).
C35_ClustersAreNew ==
    [][(stateFile' # stateFile) =>
          \A out \in {o \in ClusteringOutputs : o.kind = "data"} :
             ((RunClusteringWith(out) \/ ProcessClusteringWith(out))
              /\ ClusteringResult(out).outcome = "ok")
             => /\ \A c \in DOMAIN Persisted.clusters :
                      /\ c \in DOMAIN Persisted'.clusters
                      /\ Persisted'.clusters[c] = Persisted.clusters[c]
                /\ Cardinality(DOMAIN Persisted'.clusters)
                     = Cardinality(DOMAIN Persisted.clusters) + Len(out.clusters)]_vars

\* The cluster _fast_track_resolve made in this run for an issue whose
\* fast-track resolution failed.
FailedFastTrackCluster(c) ==
    /\ c \in UuidIds
    /\ c \in DOMAIN Persisted.clusters
    /\ \E f \in fast_track_failures : f[1] \in Persisted.clusters[c].issue_ids

\* C38: in one process() run the resolution of a cluster is attempted at
\* most once: for the cluster of a fast-track resolution that failed or was
\* rejected, the last stage of the same run does not invoke the resolution
\* agent again.
C38_ResolutionOncePerRun ==
    [][(pc = "resolve") =>
          \A c \in resQueue, run \in ResolutionRuns :
             (ProcessResolveWith(c, run) /\ FailedFastTrackCluster(c))
             => ResolutionResult(c, run[1], run[2], run[3]).calls = 0]_vars


\* ---------------------------------------------------------------------
\* Publication after triage, and the severity of a draft
\* (specification SpecContent)
\* ---------------------------------------------------------------------

\* C36: publish_issue writes a public file only for an issue that a triage
\* has taken; for an issue that never passed triage (a draft, or a draft
\* moved straight to deferred or wont_fix) no file is written.
C36_PublishOnlyTriaged ==
    [][(ContentPublish /\ publicFiles' # publicFiles) => passedTriage]_vars

\* C37: the issue that import_draft puts in the state carries the severity
\* recorded in the draft file.
C37_DraftSeverityKept ==
    [][\A t \in {"raw", "clean"}, ctx \in DraftContexts, sev \in DraftSeverities :
          ContentImport(t, "raw", ctx, sev) => doc'.severity = sev]_vars


\* ---------------------------------------------------------------------
\* Recovery of a fast-track (specification SpecRecover): process() runs
\* whose agent calls succeed and whose gates approve, and crashes
\* ---------------------------------------------------------------------

\* The triage agent succeeds: it answers for exactly the drafts sent to it.
TriageSucceeds(out) ==
    LET st == ImportAllDrafts(Load(stateFile), {i \in Ids : draftFiles[i] # "none"})
    IN  /\ out.kind = "data"
        /\ DOMAIN out.issues = IssuesWith(st, {"draft"})

\* The clustering agent succeeds: it answers for exactly the triaged issues
\* and its clusters hold triaged issues only.
ClusteringSucceeds(out) ==
    LET triaged == IssuesWith(Load(stateFile), {"triaged"})
    IN  /\ out.kind = "data"
        /\ DOMAIN out.issues = triaged
        /\ \A k \in DOMAIN out.clusters : out.clusters[k].issue_ids \subseteq triaged

\* The prioritization agent succeeds: it answers for exactly the issues sent.
PrioritizationSucceeds(out) ==
    /\ out.kind = "data"
    /\ DOMAIN out.issues = IssuesWith(Load(stateFile), {"triaged", "clustered"})

\* The resolution agent succeeds each time it is invoked, and the plan gate,
\* when asked, approves.
ResolutionSucceeds(run) ==
    /\ run[1] # "fail"
    /\ run[3] # "fail"
    /\ run[1] = "needs_approval" => run[2]

\* process(), lines 557-567. The critical issues of a run are no more than
\* the uuids left for their clusters.
RecoverTriage(out) ==
    /\ TriageSucceeds(out)
    /\ ProcessTriageWith(out)
    /\ Cardinality(critical_issues')
         <= Cardinality(UuidIds \ DOMAIN Load(stateFile).clusters)

RecoverFastTrackResolve(run) ==
    ResolutionSucceeds(run) /\ ProcessFastTrackResolveWith(run)

RecoverClustering(out) ==
    ClusteringSucceeds(out) /\ ProcessClusteringWith(out)

RecoverPrioritization(out) ==
    PrioritizationSucceeds(out) /\ ProcessPrioritizationWith(out, TRUE)

RecoverResolve(c, run) ==
    ResolutionSucceeds(run) /\ ProcessResolveWith(c, run)

NextRecover ==
    \/ \E i \in Ids : ReportDraft(i)
    \/ \E out \in TriageOutputs : RecoverTriage(out)
    \/ \E i \in Ids : ProcessFastTrackSave(i)
    \/ \E run \in ResolutionRuns : RecoverFastTrackResolve(run)
    \/ \E out \in ClusteringOutputs : RecoverClustering(out)
    \/ \E out \in PrioritizationOutputs : RecoverPrioritization(out)
    \/ \E c \in ClusterIds, run \in ResolutionRuns : RecoverResolve(c, run)
    \/ ProcessCrash

\* process() is run again and again, and a stage that can be reached again
\* and again is reached without a crash in the end.
RecoverFairness ==
    /\ SF_vars(\E out \in TriageOutputs : RecoverTriage(out))
    /\ SF_vars(\E i \in Ids : ProcessFastTrackSave(i))
    /\ SF_vars(\E run \in ResolutionRuns : RecoverFastTrackResolve(run))
    /\ SF_vars(\E out \in ClusteringOutputs : RecoverClustering(out))
    /\ SF_vars(\E out \in PrioritizationOutputs : RecoverPrioritization(out))
    /\ \A c \in ClusterIds :
          SF_vars(\E run \in ResolutionRuns : RecoverResolve(c, run))

SpecRecover == Init /\ [][NextRecover]_vars /\ RecoverFairness

\* What a fast-track that did not finish leaves in the state file: the
\* issue triaged and critical (nothing saved yet), or prioritized in its
\* approved singleton cluster (saved, not resolved).
FastTrackPending(i) ==
    /\ i \in DOMAIN Persisted.issues
    /\ \/ /\ Persisted.issues[i].status = "triaged"
          /\ Persisted.issues[i].severity = "critical"
       \/ /\ Persisted.issues[i].status = "prioritized"
          /\ \E c \in UuidIds \cap DOMAIN Persisted.clusters :
                /\ Persisted.clusters[c].status = "approved"
                /\ Persisted.clusters[c].issue_ids = {i}

IssueResolved(i) ==
    i \in DOMAIN Persisted.issues /\ Persisted.issues[i].status = "resolved"

\* C40: an issue whose fast-track was begun, the process dying at any point
\* of it or not, is resolved in the end by the runs of process() whose agent
\* calls succeed and whose gates approve.
C40_FastTrackRecovers ==
    \A i \in Ids : FastTrackPending(i) ~> IssueResolved(i)

\* A run that fast-tracked nothing has resolved the issue of a singleton
\* cluster that an earlier run, dying, had left approved.
C40_Witness ==
    /\ pc = "idle"
    /\ result = "complete"
    /\ critical_issues = {}
    /\ \E i \in Ids, c \in UuidIds \cap DOMAIN Persisted.clusters :
          /\ IssueResolved(i)
          /\ Persisted.clusters[c].status = "resolved"
          /\ Persisted.clusters[c].issue_ids = {i}

====
